---------------------------- MODULE Spec2Model ----------------------------
(***************************************************************************)
(* ProtoScript: the code the emitter generates for a message type (binary *)
(* and JSON codecs), run over the wire codec runtime's BinaryDecoder.      *)
(*                                                                         *)
(* JavaScript values are tagged pairs <<tag, payload>>:                    *)
(*   <<"undefined", 0>>, <<"null", 0>>, <<"number", n>>, <<"bigint", n>>,  *)
(*   <<"boolean", b>>, <<"string", codes>>, <<"bytes", bytes>>,            *)
(*   <<"array", seq>>, <<"object", [key |-> value]>>.                       *)
(* A string is the sequence of its UTF-16 code units; an object is a       *)
(* function from its own property keys to their values.  A thrown          *)
(* exception is <<"throw", name>>.                                         *)
(***************************************************************************)
EXTENDS Integers, Sequences, FiniteSets, TLC

VARIABLES
    ty,     \* name of the message type whose generated codec is in use
    cfg,    \* generator configuration (config.json of the emitter)
    msg,    \* the message the caller holds
    wire,   \* the fields on the wire: a sequence of <<number, wire type, payload>>
    doc,    \* the JSON document: the object given to stringify or parsed from a text
    out,    \* result of the last decode, or the value the last call returned
    pc,     \* the last operation performed
    asserts,            \* whether assert and fail of ./goog/asserts throw
    decoder,            \* the BinaryDecoder under test
    before,             \* that decoder as it was when the last method was called
    args,               \* the arguments of that call
    calls,              \* number of decoder methods called so far
    instanceCache_,     \* BinaryDecoder.instanceCache_
    cacheBefore,        \* instanceCache_ as it was when alloc or free was last called
    live,               \* number of decoders callers hold
    heap,               \* the decoder instances constructed, each with the number of
                        \* callers that alloc has handed it to since it was last freed
    request,            \* the proto files of the CodeGeneratorRequest, in order
    response,           \* the files added to the CodeGeneratorResponse, in order
    IMPORT_TRACKER,     \* the emitter's module-level import tracker
    env,                \* process.env.GENERATE_KNOWN_TYPES
    options,            \* the options compile passes to generate
    position,           \* number of request files compile has been through
    stdin,              \* process.stdin: the chunks to come, those that have arrived, those
                        \* in its buffer, a 'readable' event due, end of input, 'end' emitted
    chunks,             \* the chunks readStream has collected
    stdout,             \* the writes made to process.stdout
    comment,            \* the comment printComments is given
    stack               \* the calls of generated initialize() functions under way

codecVars == <<ty, cfg, msg, wire, doc>>
decoderVars == <<asserts, decoder, before, args, calls>>
cacheVars == <<instanceCache_, cacheBefore, live, heap>>
compileVars == <<request, response, IMPORT_TRACKER, env, options, position>>
streamVars == <<stdin, chunks, stdout>>
emitVars == <<comment, stack>>

vars == <<codecVars, out, pc, decoderVars, cacheVars, compileVars, streamVars, emitVars>>

(***************************************************************************)
(* Bounds of the model.                                                    *)
(***************************************************************************)
MaxWire == 3          \* fields appended to a hand-built buffer

(***************************************************************************)
(* JavaScript values.                                                      *)
(***************************************************************************)
Undefined == <<"undefined", 0>>
Null == <<"null", 0>>
Num(n) == <<"number", n>>
Big(n) == <<"bigint", n>>
Bool(b) == <<"boolean", b>>
Str(s) == <<"string", s>>
Bytes(s) == <<"bytes", s>>
Arr(s) == <<"array", s>>
Obj(f) == <<"object", f>>
Throw(e) == <<"throw", e>>
EmptyObj == Obj(<<>>)

Tag(v) == v[1]
Val(v) == v[2]
IsThrow(v) == Tag(v) = "throw"

\* ToBoolean: the condition of `if (x)`.
Truthy(v) ==
    CASE Tag(v) = "undefined" -> FALSE
      [] Tag(v) = "null" -> FALSE
      [] Tag(v) = "number" -> Val(v) # 0
      [] Tag(v) = "bigint" -> Val(v) # 0
      [] Tag(v) = "boolean" -> Val(v)
      [] Tag(v) = "string" -> Val(v) # <<>>
      [] OTHER -> TRUE

\* `x != undefined`: neither undefined nor null.
NotNullish(v) == Tag(v) \notin {"undefined", "null"}

\* `x?.length` used as a condition.
HasLength(v) ==
    /\ Tag(v) \in {"string", "bytes", "array"}
    /\ Len(Val(v)) > 0

\* Property read obj[key]; a missing property reads as undefined.
Get(o, k) == IF k \in DOMAIN Val(o) THEN Val(o)[k] ELSE Undefined

\* Property write obj[key] = value.
Put(o, k, v) ==
    Obj([x \in (DOMAIN Val(o)) \cup {k} |-> IF x = k THEN v ELSE Val(o)[x]])

\* a ?? b
Coalesce(a, b) == IF NotNullish(a) THEN a ELSE b

(***************************************************************************)
(* Strings as code units.                                                  *)
(***************************************************************************)
Digit(n) == 48 + n

RECURSIVE DecDigits(_)
DecDigits(n) == IF n < 10 THEN <<Digit(n)>> ELSE Append(DecDigits(n \div 10), Digit(n % 10))

\* Number.prototype.toString / BigInt.prototype.toString for an integer.
DecString(n) == IF n < 0 THEN <<45>> \o DecDigits(-n) ELSE DecDigits(n)

RECURSIVE ParseDigits(_, _)
ParseDigits(s, acc) ==
    IF s = <<>> THEN acc ELSE ParseDigits(Tail(s), acc * 10 + (Head(s) - 48))

\* BigInt(string) / Number(string) for a decimal integer string.
ParseDec(s) ==
    IF s # <<>> /\ Head(s) = 45 THEN 0 - ParseDigits(Tail(s), 0) ELSE ParseDigits(s, 0)

IsDecString(s) ==
    LET body == IF s # <<>> /\ Head(s) = 45 THEN Tail(s) ELSE s
    IN  body # <<>> /\ \A i \in DOMAIN body : body[i] \in 48..57

\* String(x) for the values used as property keys.
ToStr(v) ==
    CASE Tag(v) = "string" -> Val(v)
      [] Tag(v) \in {"number", "bigint"} -> DecString(Val(v))
      [] Tag(v) = "undefined" -> <<117, 110, 100, 101, 102, 105, 110, 101, 100>>
      [] OTHER -> <<63>>

(***************************************************************************)
(* 32-bit integer arithmetic of JavaScript's bitwise operators.  A value   *)
(* is kept as the signed 32-bit integer the operator returns.              *)
(***************************************************************************)
RECURSIVE Pow2(_)
Pow2(k) == IF k = 0 THEN 1 ELSE 2 * Pow2(k - 1)

MinInt32 == 0 - 1 - 2147483647

\* a << k for 0 <= a < 128, as the signed 32-bit result.
Shl(a, k) ==
    IF k = 0 THEN a
    ELSE IF k = 31 THEN (IF a % 2 = 1 THEN MinInt32 ELSE 0)
    ELSE LET keep == a % Pow2(31 - k)      \* bits that stay below bit 31
             sign == (a \div Pow2(31 - k)) % 2
         IN  keep * Pow2(k) + (IF sign = 1 THEN MinInt32 ELSE 0)

RECURSIVE OrNat(_, _)
OrNat(a, b) ==
    IF a = 0 THEN b
    ELSE IF b = 0 THEN a
    ELSE (IF a % 2 = 1 \/ b % 2 = 1 THEN 1 ELSE 0) + 2 * OrNat(a \div 2, b \div 2)

\* a | b on signed 32-bit integers.
Or(a, b) ==
    LET la == IF a < 0 THEN a - MinInt32 ELSE a
        lb == IF b < 0 THEN b - MinInt32 ELSE b
    IN  OrNat(la, lb) + (IF a < 0 \/ b < 0 THEN MinInt32 ELSE 0)

\* x >>> 0: the same 32 bits in unsigned reading.  For x >= 0 that is x; for
\* x < 0 it is x + 2^32, which is beyond the integers of the model checker,
\* and the value stays in signed reading as every 32-bit value here does.
ToUint32(x) == x

\* The number x >>> 0 as a JavaScript value: the 32 bits x read unsigned.  From
\* 2^31 on it is written by its bits, x < 0, and the word "unsigned".
Uint32(x) == IF x < 0 THEN <<"number", x, "unsigned">> ELSE Num(x)

\* x >>> 7 on the 32 bits x.
Shr7(x) == IF x < 0 THEN (x - MinInt32) \div 128 + 16777216 ELSE x \div 128

(***************************************************************************)
(* BinaryDecoder.  A decoder is the record of its five fields; a method    *)
(* returns the decoder after the call together with the value returned.    *)
(* Reading bytes_[i] outside the array gives undefined, written NoByte:    *)
(* undefined & m is 0 and every comparison with undefined is false.        *)
(***************************************************************************)
NoByte == 0 - 1

BinaryDecoder ==
    [bytes_ |-> Null, start_ |-> 0, end_ |-> 0, cursor_ |-> 0, error_ |-> FALSE]

\* ./goog/asserts: assert(condition) with a false condition, and fail(message),
\* throw where assertions are enabled and return where they are not.
AssertionError == Throw("AssertionError")

Ret(d, v) == [d |-> d, v |-> v]

\* return x, and return x >>> 0: the bits of the number, and how they are read.
RetSigned(d, x) == Ret(d, x)
RetUnsigned(d, x) == [d |-> d, v |-> ToUint32(x), unsigned |-> TRUE]

\* The number a method returned, as a JavaScript value.
Number(r) == IF "unsigned" \in DOMAIN r THEN Uint32(r.v) ELSE Num(r.v)

At(d, i) ==
    IF Tag(d.bytes_) = "bytes" /\ i >= 0 /\ i < Len(Val(d.bytes_))
    THEN Val(d.bytes_)[i + 1]
    ELSE NoByte

And(t, m) == IF t = NoByte THEN 0 ELSE t % (m + 1)    \* t & m, m = 2^k - 1
Lt128(t) == t # NoByte /\ t < 128
Ge128(t) == t # NoByte /\ t >= 128

setBlock(d, data, opt_start, opt_length) ==
    LET start == IF opt_start # NoByte THEN opt_start ELSE 0
    IN  [d EXCEPT !.bytes_ = Bytes(data),
                  !.start_ = start,
                  !.end_ = IF opt_length # NoByte THEN start + opt_length ELSE Len(data),
                  !.cursor_ = start]

clear(d) ==
    [d EXCEPT !.bytes_ = Null, !.start_ = 0, !.end_ = 0, !.cursor_ = 0, !.error_ = FALSE]

getEnd(d) == d.end_
setEnd(d, end) == [d EXCEPT !.end_ = end]
getCursor(d) == d.cursor_
setCursor(d, cursor) == [d EXCEPT !.cursor_ = cursor]
advance(d, count) == [d EXCEPT !.cursor_ = d.cursor_ + count]
atEnd(d) == d.cursor_ = d.end_
getError(d) == d.error_ \/ d.cursor_ < 0 \/ d.cursor_ > d.end_

\* The conversion joinSignedDecimalString(lowBits, highBits) of ./utils.
joinSignedDecimalString(lowBits, highBits) ==
    IF highBits = 0 THEN DecString(lowBits) ELSE <<63>>

\* for (i = 0; i < 4 && temp >= 128; i++) { temp = bytes[cursor++]; lowBits |= ... }
RECURSIVE SplitLow(_, _, _)
SplitLowByte(d, i, t, lowBits) ==
    SplitLow(advance(d, 1), i + 1,
             [temp |-> t, low |-> Or(lowBits, Shl(And(t, 127), i * 7)), high |-> 0])
SplitLow(d, i, s) ==
    IF i < 4 /\ Ge128(s.temp)
    THEN SplitLowByte(d, i, At(d, d.cursor_), s.low)
    ELSE [d |-> d, temp |-> s.temp, low |-> s.low, high |-> s.high]

\* A fifth byte whose upper three payload bits are not carried into highBits.
SplitFifthByteLowOnly(d, t, lowBits) ==
    [d |-> advance(d, 1), temp |-> t,
     low |-> Or(lowBits, Shl(And(t, 127), 28)), high |-> 0]

\* The fifth byte, which straddles the low and high dwords.
SplitFifthByte(d, t, lowBits) ==
    [d |-> advance(d, 1), temp |-> t,
     low |-> Or(lowBits, Shl(And(t, 127), 28)), high |-> And(t, 127) \div 16]
SplitFifth(a) ==
    IF Ge128(a.temp) THEN SplitFifthByte(a.d, At(a.d, a.d.cursor_), a.low) ELSE a

\* for (i = 0; i < 5 && temp >= 128; i++) { temp = bytes[cursor++]; highBits |= ... }
RECURSIVE SplitHigh(_, _)
SplitHighByte(b, i, t) ==
    SplitHigh([d |-> advance(b.d, 1), temp |-> t, low |-> b.low,
               high |-> Or(b.high, Shl(And(t, 127), i * 7 + 3))], i + 1)
SplitHigh(b, i) ==
    IF i < 5 /\ Ge128(b.temp) THEN SplitHighByte(b, i, At(b.d, b.d.cursor_)) ELSE b

\* fail("Failed to read varint, encoding is invalid."); this.error_ = true;
\* the assignment is reached only when fail returns.
SplitFail(d) ==
    IF asserts THEN Ret(d, AssertionError) ELSE Ret([d EXCEPT !.error_ = TRUE], Undefined)

SplitResult(c) ==
    IF Lt128(c.temp)
    THEN Ret(c.d, Str(joinSignedDecimalString(ToUint32(c.low), ToUint32(c.high))))
    ELSE SplitFail(c.d)

\* The three loops of readSplitVarint64: the decoder, the last byte read and
\* the two dwords when the loops are left.
SplitBits(d) ==
    SplitHigh(SplitFifth(SplitLow(d, 0, [temp |-> 128, low |-> 0, high |-> 0])), 0)

\* readSplitVarint64(convert) with convert = joinSignedDecimalString.
readSplitVarint64(d) == SplitResult(SplitBits(d))

\* readSplitVarint64(convert) with convert = (lowBits, highBits) =>
\* [lowBits, highBits].  lowBits >>> 0 and highBits >>> 0 have the bits of
\* the dwords; each dword is kept in its signed reading.
SplitPair(c) ==
    IF Lt128(c.temp) THEN Ret(c.d, Arr(<<Num(c.low), Num(c.high)>>)) ELSE SplitFail(c.d)

readSplitVarint64Pair(d) == SplitPair(SplitBits(d))

\* (x << 8) | b on the signed 32-bit x, for a byte b or undefined.
ShlOr8(x, b) ==
    LET low24 == (IF x < 0 THEN x - MinInt32 ELSE x) % 16777216
    IN  (low24 % 8388608) * 256 + (IF low24 >= 8388608 THEN MinInt32 ELSE 0)
        + (IF b = NoByte THEN 0 ELSE b)

\* One pass of the loop of readSplitFixed64 at index i that gives both dwords
\* the same byte.
Fixed64StepSameByte(d, i, c) ==
    [low |-> ShlOr8(c.low, At(d, i)), high |-> ShlOr8(c.high, At(d, i))]

\* lowBits = (lowBits << 8) | bytes[i]; highBits = (highBits << 8) | bytes[i + 4]
Fixed64Step(d, i, c) ==
    [low |-> ShlOr8(c.low, At(d, i)), high |-> ShlOr8(c.high, At(d, i + 4))]

\* for (let i = cursor + 7; i >= cursor; i--)
RECURSIVE Fixed64Loop(_, _, _, _)
Fixed64Loop(d, cursor, i, c) ==
    IF i >= cursor THEN Fixed64Loop(d, cursor, i - 1, Fixed64Step(d, i, c)) ELSE c

Fixed64Pair(d, c) == Ret(d, Arr(<<Num(c.low), Num(c.high)>>))

\* readSplitFixed64(convert) with convert = (lowBits, highBits) =>
\* [lowBits, highBits].
readSplitFixed64(d) ==
    Fixed64Pair(advance(d, 8), Fixed64Loop(d, d.cursor_, d.cursor_ + 7, [low |-> 0, high |-> 0]))

\* skipVarint that takes every varint to be one byte long.
skipVarintOneByte(d) == advance(d, 1)

RECURSIVE skipVarint(_)
skipVarint(d) ==
    IF Ge128(At(d, d.cursor_)) THEN skipVarint(advance(d, 1)) ELSE advance(d, 1)

\* unskipVarint(value): while (value > 128) { cursor_--; value >>>= 7 } cursor_--
RECURSIVE unskipVarint(_, _)
unskipVarint(d, value) ==
    IF Len(value) = 3 \/ Val(value) > 128
    THEN unskipVarint(advance(d, 0 - 1), Num(Shr7(Val(value))))
    ELSE advance(d, 0 - 1)

\* The chain bytes[this.cursor_++] >= 128 && ... of five operands stops at
\* the first byte that is not a continuation byte: the bytes it consumes.
LongVarintTail(d, c) ==
    CHOOSE k \in 1..5 :
        /\ \A j \in 1..(k - 1) : Ge128(At(d, c + j - 1))
        /\ k < 5 => ~Ge128(At(d, c + k - 1))

\* readUnsignedVarint32, its five unrolled steps k = 0..4: read byte k, or
\* it into x, return when the byte ends the varint.
RECURSIVE Varint32Step(_, _, _)
Varint32Byte(d, k, t, x) ==
    IF Lt128(t)
    THEN (IF k = 4 THEN RetUnsigned(advance(d, 5), x) ELSE Ret(advance(d, k + 1), x))
    ELSE IF k < 4 THEN Varint32Step(d, k + 1, x)
    ELSE Ret(advance(d, 5 + LongVarintTail(d, d.cursor_ + 5)), x)
Varint32Or(d, k, t, x) ==
    Varint32Byte(d, k, t, Or(x, Shl(And(t, IF k = 4 THEN 15 ELSE 127), 7 * k)))
Varint32Step(d, k, x) == Varint32Or(d, k, At(d, d.cursor_ + k), x)

readUnsignedVarint32(d) == Varint32Step(d, 0, 0)

readSignedVarint32(d) == readUnsignedVarint32(d)

readBool(d) ==
    LET t == At(d, d.cursor_) IN Ret(advance(d, 1), t # NoByte /\ t # 0)

readEnum(d) == readSignedVarint32(d)

\* A surrogate pair pushed low surrogate first.
SurrogatesLowFirst(codepoint) ==
    <<(codepoint % 1024) + 56320, ((codepoint \div 1024) % 1024) + 55296>>

\* low = (codepoint & 1023) + 0xDC00; high = ((codepoint >> 10) & 1023) + 0xD800;
\* codeUnits.push(high, low)
Surrogates(codepoint) ==
    <<((codepoint \div 1024) % 1024) + 55296, (codepoint % 1024) + 56320>>

RECURSIVE ReadStringLoop(_, _, _, _)
ReadStringLoop(d, cursor, end, codeUnits) ==
    IF cursor < end
    THEN LET c == At(d, cursor)
             c2 == At(d, cursor + 1)
             c3 == At(d, cursor + 2)
             c4 == At(d, cursor + 3)
         IN  IF c # NoByte /\ c < 128
             THEN ReadStringLoop(d, cursor + 1, end, Append(codeUnits, c))
             ELSE IF c # NoByte /\ c < 192
             THEN ReadStringLoop(d, cursor + 1, end, codeUnits)
             ELSE IF c # NoByte /\ c < 224
             THEN ReadStringLoop(d, cursor + 2, end,
                      Append(codeUnits, Or(Shl(And(c, 31), 6), And(c2, 63))))
             ELSE IF c # NoByte /\ c < 240
             THEN ReadStringLoop(d, cursor + 3, end,
                      Append(codeUnits,
                             Or(Or(And(c, 15) * 4096, And(c2, 63) * 64), And(c3, 63))))
             ELSE IF c # NoByte /\ c < 248
             THEN ReadStringLoop(d, cursor + 4, end,
                      codeUnits \o Surrogates(
                          Or(Or(Or(And(c, 7) * 262144, And(c2, 63) * 4096),
                                And(c3, 63) * 64), And(c4, 63)) - 65536))
             ELSE ReadStringLoop(d, cursor + 1, end, codeUnits)
    ELSE Ret(setCursor(d, cursor), codeUnits)

readString(d, length) == ReadStringLoop(d, d.cursor_, d.cursor_ + length, <<>>)

SubArray(s, from, to) == [i \in 1..(to - from) |-> s[from + i]]

readBytes(d, length) ==
    IF length < 0 \/ d.cursor_ + length > Len(Val(d.bytes_))
    THEN Ret([d EXCEPT !.error_ = TRUE], <<>>)
    ELSE Ret(advance(d, length), SubArray(Val(d.bytes_), d.cursor_, d.cursor_ + length))

(***************************************************************************)
(* The intermediate representation the emitter is given: message and enum  *)
(* nodes with their fields.  These are the message types the model runs    *)
(* the generated code for.                                                 *)
(*                                                                         *)
(*   enum E { A = 0; B = 1; }                                              *)
(*   message Inner { int32 a = 1; }                                        *)
(*   message Empty { }                                                     *)
(*   message M { int32 n = 1; string s = 2; int64 x = 3; bytes d = 4;      *)
(*               bool b = 5; }                                             *)
(*   message O { optional int32 oi = 1; optional bytes ob = 2;             *)
(*               optional E oe = 3; }                                      *)
(*   message P { repeated int32 xs = 1; repeated string ss = 2;            *)
(*               repeated E es = 3; }                                      *)
(*   message En { E e = 1; }                                               *)
(*   message Nest { Inner inner = 1; optional Inner oin = 2;               *)
(*                  repeated Inner rin = 3; Empty em = 4; }                *)
(*   message Mm { map<string, int32> m = 1; }                              *)
(*   message Mx { map<string, int64> m = 1; }                              *)
(*   message Nm { int32 foo_bar = 1; int32 baz_qux = 2 [json_name="bq"]; } *)
(***************************************************************************)
Field(name, index, read, write, tsType, defaultValue) ==
    [name |-> name, protoName |-> name, jsonName |-> name, index |-> index,
     repeated |-> FALSE, optional |-> FALSE, map |-> FALSE,
     read |-> read, write |-> write, readPacked |-> "",
     tsType |-> tsType, defaultValue |-> defaultValue]

Optional(f) == [f EXCEPT !.optional = TRUE]
Repeated(f, write, readPacked) ==
    [f EXCEPT !.repeated = TRUE, !.write = write, !.readPacked = readPacked]
MapField(f) == [f EXCEPT !.map = TRUE, !.write = "writeRepeatedMessage"]
Named(f, protoName, jsonName) == [f EXCEPT !.protoName = protoName, !.jsonName = jsonName]

Message(fields) == [type |-> "message", isMap |-> FALSE, fields |-> fields, values |-> <<>>]
MapEntry(fields) == [type |-> "message", isMap |-> TRUE, fields |-> fields, values |-> <<>>]
Enum(values) == [type |-> "enum", isMap |-> FALSE, fields |-> <<>>, values |-> values]

sA == <<65>>          \* "A"
sB == <<66>>          \* "B"
sa == <<97>>          \* "a"
sb == <<98>>          \* "b"
sHi == <<104, 105>>   \* "hi"

Int32Field(name, index) == Field(name, index, "readInt32", "writeInt32", "number", Num(0))
StringField(name, index) == Field(name, index, "readString", "writeString", "string", Str(<<>>))
BytesField(name, index) == Field(name, index, "readBytes", "writeBytes", "Uint8Array", Bytes(<<>>))
EnumField(name, index) == Field(name, index, "readEnum", "writeEnum", "E", Str(sA))
InnerField(name, index) == Field(name, index, "readMessage", "writeMessage", "Inner", Undefined)

Types ==
    [E |-> Enum(<<[name |-> sA, value |-> 0], [name |-> sB, value |-> 1]>>),
     Inner |-> Message(<<Int32Field("a", 1)>>),
     Empty |-> Message(<<>>),
     M |-> Message(<<Int32Field("n", 1),
                     StringField("s", 2),
                     Field("x", 3, "readInt64String", "writeInt64String", "bigint", Big(0)),
                     BytesField("d", 4),
                     Field("b", 5, "readBool", "writeBool", "boolean", Bool(FALSE))>>),
     O |-> Message(<<Optional(Int32Field("oi", 1)),
                     Optional(BytesField("ob", 2)),
                     Optional(EnumField("oe", 3))>>),
     P |-> Message(<<Repeated(Int32Field("xs", 1), "writePackedInt32", "readPackedInt32"),
                     Repeated(StringField("ss", 2), "writeRepeatedString", ""),
                     Repeated(EnumField("es", 3), "writePackedEnum", "readPackedEnum")>>),
     En |-> Message(<<EnumField("e", 1)>>),
     Nest |-> Message(<<InnerField("inner", 1),
                        Optional(InnerField("oin", 2)),
                        Repeated(InnerField("rin", 3), "writeRepeatedMessage", ""),
                        Field("em", 4, "readMessage", "writeMessage", "Empty", Undefined)>>),
     Mm |-> Message(<<MapField(Field("m", 1, "readMessage", "writeMessage", "MEntry", EmptyObj))>>),
     MEntry |-> MapEntry(<<StringField("key", 1), Int32Field("value", 2)>>),
     Mx |-> Message(<<MapField(Field("m", 1, "readMessage", "writeMessage", "XEntry", EmptyObj))>>),
     XEntry |-> MapEntry(<<StringField("key", 1),
                           Field("value", 2, "readInt64String", "writeInt64String", "bigint",
                                 Big(0))>>),
     Nm |-> Message(<<Named(Int32Field("fooBar", 1), "foo_bar", "fooBar"),
                      Named(Int32Field("bazQux", 2), "baz_qux", "bq")>>)]

MessageTypes == {"M", "O", "P", "En", "Nest", "Mm", "Nm"}

\* The message types the JSON codec is run for.
JSONMessageTypes == MessageTypes \cup {"Mx"}

FieldsOf(T) == Types[T].fields
FieldNumbers(T) == {FieldsOf(T)[i].index : i \in DOMAIN FieldsOf(T)}
FieldNames(T) == {FieldsOf(T)[i].name : i \in DOMAIN FieldsOf(T)}

(***************************************************************************)
(* The wire format as BinaryWriter produces it.  A written field is        *)
(* <<field number, wire type, payload>>; getResultBuffer lays the fields   *)
(* out as tag, length prefix (for wire type 2) and payload.                *)
(***************************************************************************)
RECURSIVE Varint(_)
Varint(n) == IF n < 128 THEN <<n>> ELSE <<128 + (n % 128)>> \o Varint(n \div 128)

\* A signed 32-bit value as a varint: negative values are sign-extended to
\* 64 bits and take ten bytes.
SignedVarint(n) ==
    IF n >= 0 THEN Varint(n)
    ELSE LET low28 == n % 268435456
             nib == (n \div 268435456) % 16
         IN  <<128 + (low28 % 128), 128 + ((low28 \div 128) % 128),
               128 + ((low28 \div 16384) % 128), 128 + (low28 \div 2097152),
               128 + 112 + nib, 255, 255, 255, 255, 1>>

RECURSIVE Utf8(_)
Utf8(s) ==
    IF s = <<>> THEN <<>>
    ELSE LET c == Head(s)
         IN  (IF c < 128 THEN <<c>>
              ELSE IF c < 2048 THEN <<192 + (c \div 64), 128 + (c % 64)>>
              ELSE <<224 + (c \div 4096), 128 + ((c \div 64) % 64), 128 + (c % 64)>>)
             \o Utf8(Tail(s))

RECURSIVE Flatten(_)
Flatten(ss) == IF ss = <<>> THEN <<>> ELSE Head(ss) \o Flatten(Tail(ss))

FieldBytes(item) ==
    Varint(item[1] * 8 + item[2])
        \o (IF item[2] = 2 THEN Varint(Len(item[3])) ELSE <<>>)
        \o item[3]

\* BinaryWriter.getResultBuffer
getResultBuffer(items) == Flatten([i \in DOMAIN items |-> FieldBytes(items[i])])

\* writer[field.write](index, value) for the scalar writers.
WriteScalar(write, index, value) ==
    CASE write \in {"writeInt32", "writeEnum"} ->
             <<<<index, 0, SignedVarint(Val(value))>>>>
      [] write = "writeInt64String" ->
             <<<<index, 0, SignedVarint(ParseDec(Val(value)))>>>>
      [] write = "writeBool" ->
             <<<<index, 0, <<IF Val(value) THEN 1 ELSE 0>>>>>>
      [] write = "writeString" ->
             <<<<index, 2, Utf8(Val(value))>>>>
      [] write = "writeBytes" ->
             <<<<index, 2, Val(value)>>>>
      [] write \in {"writePackedInt32", "writePackedEnum"} ->
             IF Val(value) = <<>> THEN <<>>
             ELSE <<<<index, 2,
                      Flatten([i \in DOMAIN Val(value) |-> SignedVarint(Val(Val(value)[i]))])>>>>
      [] write = "writeRepeatedString" ->
             [i \in DOMAIN Val(value) |-> <<index, 2, Utf8(Val(Val(value)[i]))>>]

(***************************************************************************)
(* BinaryReader: a decoder and the header of the field last read.          *)
(***************************************************************************)
BinaryReader(bytes) ==
    [decoder_ |-> setBlock(BinaryDecoder, bytes, NoByte, NoByte),
     nextField_ |-> 0 - 1, nextWireType_ |-> 0 - 1, error_ |-> FALSE]

WithDecoder(r, d) == [r EXCEPT !.decoder_ = d]

\* nextField: FALSE at the end of the block or after an error, otherwise
\* reads the tag.
NextFieldHeader(r, h) ==
    IF h.v % 8 \notin {0, 1, 2, 3, 4, 5}
    THEN [r |-> [WithDecoder(r, h.d) EXCEPT !.error_ = TRUE], ok |-> FALSE]
    ELSE [r |-> [WithDecoder(r, h.d) EXCEPT !.nextField_ = h.v \div 8,
                                             !.nextWireType_ = h.v % 8],
          ok |-> TRUE]

nextField(r) ==
    IF atEnd(r.decoder_) \/ r.error_ \/ getError(r.decoder_)
    THEN [r |-> r, ok |-> FALSE]
    ELSE NextFieldHeader(r, readUnsignedVarint32(r.decoder_))

getFieldNumber(r) == r.nextField_
isDelimited(r) == r.nextWireType_ = 2

SkipDelimited(r, n) == WithDecoder(r, advance(n.d, n.v))

\* skipField: consumes the bytes of the current field according to its wire
\* type; groups are not supported.
skipField(r) ==
    CASE r.nextWireType_ = 0 -> WithDecoder(r, skipVarint(r.decoder_))
      [] r.nextWireType_ = 1 -> WithDecoder(r, advance(r.decoder_, 8))
      [] r.nextWireType_ = 2 -> SkipDelimited(r, readUnsignedVarint32(r.decoder_))
      [] r.nextWireType_ = 5 -> WithDecoder(r, advance(r.decoder_, 4))
      [] OTHER -> [r EXCEPT !.error_ = TRUE]

\* The reader after a decoder call and the JavaScript value the call gave.
Read(r, x, tag) ==
    [r |-> WithDecoder(r, x.d), v |-> IF tag = "" THEN x.v ELSE <<tag, x.v>>]

readStringWithLength(n) == readString(n.d, n.v)
readBytesWithLength(n) == readBytes(n.d, n.v)

\* reader[field.read]() for the scalar readers.
ReadScalar(read, r) ==
    CASE read \in {"readInt32", "readEnum"} ->
             Read(r, readSignedVarint32(r.decoder_), "number")
      [] read = "readInt64String" ->
             Read(r, readSplitVarint64(r.decoder_), "")
      [] read = "readBool" ->
             Read(r, readBool(r.decoder_), "boolean")
      [] read = "readString" ->
             Read(r, readStringWithLength(readUnsignedVarint32(r.decoder_)), "string")
      [] read = "readBytes" ->
             Read(r, readBytesWithLength(readUnsignedVarint32(r.decoder_)), "bytes")

\* readPackedField_: elements up to the end of the length-delimited block.
RECURSIVE ReadPackedLoop(_, _, _)
ReadPackedElement(e, end, acc) == ReadPackedLoop(e.d, end, Append(acc, Num(e.v)))
ReadPackedLoop(d, end, acc) ==
    IF d.cursor_ < end THEN ReadPackedElement(readSignedVarint32(d), end, acc)
    ELSE Ret(d, acc)

ReadPackedBlock(n) == ReadPackedLoop(n.d, n.d.cursor_ + n.v, <<>>)

\* reader[field.readPacked](): the array of numbers of a packed block.
ReadPacked(readPacked, r) ==
    Read(r, ReadPackedBlock(readUnsignedVarint32(r.decoder_)), "")

(***************************************************************************)
(* The code writeProtobufSerializers emits, as a function of the IR node.  *)
(***************************************************************************)
Range(f) == {f[i] : i \in DOMAIN f}

\* Object.entries(obj): the own properties in the object's property order.
Keys(o) ==
    LET D == DOMAIN Val(o)
    IN  CHOOSE ks \in [1..Cardinality(D) -> D] : Range(ks) = D

\* toMapMessage: Object.entries(x).map(([key, value]) => ({ key, value }))
toMapMessage(o) ==
    LET ks == Keys(o)
    IN  Arr([i \in DOMAIN ks |-> Obj([key |-> Str(ks[i]), value |-> Val(o)[ks[i]]])])

\* fromMapMessage: Object.fromEntries(x.map(({ key, value }) => [key, value]));
\* a later pair replaces an earlier one with the same key.
fromMapMessage(a) ==
    LET es == Val(a)
        ks == {ToStr(Get(es[i], "key")) : i \in DOMAIN es}
        last(k) == CHOOSE i \in DOMAIN es :
                       /\ ToStr(Get(es[i], "key")) = k
                       /\ \A j \in DOMAIN es : ToStr(Get(es[j], "key")) = k => j <= i
    IN  Obj([k \in ks |-> Get(es[last(k)], "value")])

\* The enum's _fromInt: switch (i) { case <value>: return '<name>'; ... default: return i; }
_fromInt(T, i) ==
    LET vs == Types[T].values
        hit == {k \in DOMAIN vs : vs[k].value = i}
    IN  IF hit = {} THEN Num(i)
        ELSE Str(vs[CHOOSE k \in hit : \A j \in hit : k <= j].name)

\* _toInt whose default case returns 0 instead of its argument.
_toIntKnownOnly(T, v) ==
    LET vs == Types[T].values
        hit == {k \in DOMAIN vs : Str(vs[k].name) = v}
    IN  IF hit = {} THEN Num(0)
        ELSE Num(vs[CHOOSE k \in hit : \A j \in hit : k <= j].value)

\* The enum's _toInt: switch (i) { case '<name>': return <value>; ... default: return i; }
_toInt(T, v) ==
    LET vs == Types[T].values
        hit == {k \in DOMAIN vs : Str(vs[k].name) = v}
    IN  IF hit = {} THEN v
        ELSE Num(vs[CHOOSE k \in hit : \A j \in hit : k <= j].value)

RECURSIVE initialize(_)
initialize(T) ==
    LET fs == FieldsOf(T)
        init(f) ==
            IF f.optional THEN Undefined
            ELSE IF f.repeated THEN Arr(<<>>)
            ELSE IF f.read = "readMessage" /\ ~f.map THEN initialize(f.tsType)
            ELSE f.defaultValue
    IN  Obj([n \in FieldNames(T) |->
                init(fs[CHOOSE i \in DOMAIN fs : fs[i].name = n])])

\* The guard the emitter puts around the write of one field.
WriteGuard(field, v) ==
    IF field.repeated \/ field.read = "readBytes" THEN HasLength(v)
    ELSE IF field.optional THEN NotNullish(v)
    ELSE IF field.read = "readEnum" THEN Truthy(v) /\ Truthy(_toInt(field.tsType, v))
    ELSE Truthy(v)

RECURSIVE _writeMessage(_, _)
\* The statement emitted for one field: the fields it writes.
WriteField(field, m) ==
    LET v == Get(m, field.name)
    IN  IF ~WriteGuard(field, v) THEN <<>>
        ELSE IF field.read = "readMessage"
        THEN LET arg == IF field.map THEN toMapMessage(v) ELSE v
             IN  IF field.write = "writeRepeatedMessage"
                 THEN [i \in DOMAIN Val(arg) |->
                          <<field.index, 2,
                            getResultBuffer(_writeMessage(field.tsType, Val(arg)[i]))>>]
                 ELSE <<<<field.index, 2, getResultBuffer(_writeMessage(field.tsType, arg))>>>>
        ELSE IF field.tsType = "bigint"
        THEN WriteScalar(field.write, field.index,
                 IF field.repeated
                 THEN Arr([i \in DOMAIN Val(v) |-> Str(DecString(Val(Val(v)[i])))])
                 ELSE Str(DecString(Val(v))))
        ELSE IF field.read = "readEnum"
        THEN WriteScalar(field.write, field.index,
                 IF field.repeated
                 THEN Arr([i \in DOMAIN Val(v) |-> _toInt(field.tsType, Val(v)[i])])
                 ELSE _toInt(field.tsType, v))
        ELSE WriteScalar(field.write, field.index, v)

_writeMessage(T, m) ==
    LET fs == FieldsOf(T)
    IN  Flatten([i \in DOMAIN fs |-> WriteField(fs[i], m)])

\* encode: _writeMessage(msg, new BinaryWriter()).getResultBuffer()
encode(T, m) ==
    IF FieldsOf(T) = <<>> THEN <<>> ELSE getResultBuffer(_writeMessage(T, m))

RECURSIVE _readMessage(_, _, _)
\* reader.readMessage(message, T._readMessage): the callback reads up to the
\* end of the length-delimited block, then the cursor and the end are put back.
ReadMessageEnd(res, newEnd, oldEnd) ==
    IF IsThrow(res.m) THEN res
    ELSE [m |-> res.m,
          r |-> WithDecoder(res.r, setEnd(setCursor(res.r.decoder_, newEnd), oldEnd))]

ReadMessageBlock(r, m, T, n) ==
    ReadMessageEnd(_readMessage(T, m, WithDecoder(r, setEnd(n.d, getCursor(n.d) + n.v))),
                   getCursor(n.d) + n.v, getEnd(n.d))

readMessage(r, m, T) == ReadMessageBlock(r, m, T, readUnsignedVarint32(r.decoder_))

Converter(field, v) ==
    IF field.read = "readEnum" THEN _fromInt(field.tsType, Val(v))
    ELSE IF field.tsType = "bigint" THEN Big(ParseDec(Val(v)))
    ELSE v

Push(a, vs) == Arr(Val(a) \o vs)

\* msg.<name>.push(...reader.<readPacked>().map(converter))
PushAll(field, m, x) ==
    [m |-> Put(m, field.name,
               Push(Get(m, field.name), [i \in DOMAIN x.v |-> Converter(field, x.v[i])])),
     r |-> x.r]

\* msg.<name>.push(converter(reader.<read>()))
PushOne(field, m, x) ==
    [m |-> Put(m, field.name, Push(Get(m, field.name), <<Converter(field, x.v)>>)),
     r |-> x.r]

\* msg.<name> = converter(reader.<read>())
Assign(field, m, x) ==
    [m |-> Put(m, field.name, Converter(field, x.v)), r |-> x.r]

\* The case of a repeated scalar without the isDelimited branch.
ReadScalarCaseUnpackedOnly(field, m, r) ==
    IF field.repeated
    THEN PushOne(field, m, ReadScalar(field.read, r))
    ELSE Assign(field, m, ReadScalar(field.read, r))

\* case <field.index>: { ... } for a field that is not a message.
ReadScalarCase(field, m, r) ==
    IF field.repeated
    THEN IF field.readPacked # "" /\ isDelimited(r)
         THEN PushAll(field, m, ReadPacked(field.readPacked, r))
         ELSE PushOne(field, m, ReadScalar(field.read, r))
    ELSE Assign(field, m, ReadScalar(field.read, r))

\* The map store that keeps the value already held under the key.
StoreEntryFirstWins(field, m, x) ==
    IF IsThrow(x.m) THEN x
    ELSE IF ~NotNullish(Get(x.m, "key"))
    THEN [m |-> Throw("TypeError"), r |-> x.r]
    ELSE IF ToStr(Get(x.m, "key")) \in DOMAIN Val(Get(m, field.name))
    THEN [m |-> m, r |-> x.r]
    ELSE [m |-> Put(m, field.name,
                    Put(Get(m, field.name), ToStr(Get(x.m, "key")), Get(x.m, "value"))),
          r |-> x.r]

\* msg.<name>[map.key.toString()] = map.value
StoreEntry(field, m, x) ==
    IF IsThrow(x.m) THEN x
    ELSE IF ~NotNullish(Get(x.m, "key"))     \* undefined has no toString
    THEN [m |-> Throw("TypeError"), r |-> x.r]
    ELSE [m |-> Put(m, field.name,
                    Put(Get(m, field.name), ToStr(Get(x.m, "key")), Get(x.m, "value"))),
          r |-> x.r]

\* msg.<name>.push(m)
PushMessage(field, m, x) ==
    IF IsThrow(x.m) THEN x
    ELSE [m |-> Put(m, field.name, Push(Get(m, field.name), <<x.m>>)), r |-> x.r]

\* the message read in place is msg.<name>
AssignMessage(field, m, x) ==
    IF IsThrow(x.m) THEN x ELSE [m |-> Put(m, field.name, x.m), r |-> x.r]

\* case <field.index>: { ... } for a message field.
ReadMessageCase(T, field, m, r) ==
    IF field.map
    THEN StoreEntry(field, m, readMessage(r, EmptyObj, field.tsType))
    ELSE IF field.repeated
    THEN PushMessage(field, m, readMessage(r, initialize(field.tsType), field.tsType))
    ELSE AssignMessage(field, m,
             readMessage(r,
                         IF field.optional \/ Types[T].isMap
                         THEN initialize(field.tsType)
                         ELSE Get(m, field.name),
                         field.tsType))

FieldCase(T, field, m, r) ==
    IF field.read = "readMessage"
    THEN ReadMessageCase(T, field, m, r)
    ELSE ReadScalarCase(field, m, r)

\* The body of the switch: the case of a known field number, skipField by default.
ReadCase(T, m, r) ==
    IF getFieldNumber(r) \notin FieldNumbers(T) THEN [m |-> m, r |-> skipField(r)]
    ELSE FieldCase(T,
                   FieldsOf(T)[CHOOSE i \in DOMAIN FieldsOf(T) :
                                   FieldsOf(T)[i].index = getFieldNumber(r)],
                   m, r)

\* while (reader.nextField()) { switch (reader.getFieldNumber()) ... } return msg;
ReadLoop(T, c) == IF IsThrow(c.m) THEN c ELSE _readMessage(T, c.m, c.r)

ReadField(T, m, nf) ==
    IF ~nf.ok THEN [m |-> m, r |-> nf.r] ELSE ReadLoop(T, ReadCase(T, m, nf.r))

_readMessage(T, m, r) ==
    IF FieldsOf(T) = <<>> THEN [m |-> m, r |-> r] ELSE ReadField(T, m, nextField(r))

\* decode: _readMessage(initialize(), new BinaryReader(bytes))
decode(T, bytes) ==
    IF FieldsOf(T) = <<>> THEN EmptyObj
    ELSE _readMessage(T, initialize(T), BinaryReader(bytes)).m

(***************************************************************************)
(* The code writeJSONSerializers emits, as a function of the IR node and   *)
(* of the configuration.  <T>JSON._writeMessage returns the object that    *)
(* encode hands to JSON.stringify; decode hands the object JSON.parse      *)
(* returns to <T>JSON._readMessage.                                        *)
(***************************************************************************)
\* The base64 alphabet: the code unit of a 6-bit value, and back.
Base64Char(n) ==
    IF n < 26 THEN 65 + n
    ELSE IF n < 52 THEN 71 + n
    ELSE IF n < 62 THEN n - 4
    ELSE IF n = 62 THEN 43 ELSE 47

Base64Value(c) == CHOOSE n \in 0..63 : Base64Char(n) = c

RECURSIVE Base64(_)
Base64(b) ==
    IF b = <<>> THEN <<>>
    ELSE IF Len(b) = 1
    THEN <<Base64Char(b[1] \div 4), Base64Char((b[1] % 4) * 16), 61, 61>>
    ELSE IF Len(b) = 2
    THEN <<Base64Char(b[1] \div 4), Base64Char((b[1] % 4) * 16 + b[2] \div 16),
           Base64Char((b[2] % 16) * 4), 61>>
    ELSE <<Base64Char(b[1] \div 4), Base64Char((b[1] % 4) * 16 + b[2] \div 16),
           Base64Char((b[2] % 16) * 4 + b[3] \div 64), Base64Char(b[3] % 64)>>
         \o Base64(SubSeq(b, 4, Len(b)))

RECURSIVE FromBase64(_)
FromBase64(s) ==
    IF Len(s) < 4 THEN <<>>
    ELSE (IF s[3] = 61
          THEN <<Base64Value(s[1]) * 4 + Base64Value(s[2]) \div 16>>
          ELSE IF s[4] = 61
          THEN <<Base64Value(s[1]) * 4 + Base64Value(s[2]) \div 16,
                 (Base64Value(s[2]) % 16) * 16 + Base64Value(s[3]) \div 4>>
          ELSE <<Base64Value(s[1]) * 4 + Base64Value(s[2]) \div 16,
                 (Base64Value(s[2]) % 16) * 16 + Base64Value(s[3]) \div 4,
                 (Base64Value(s[3]) % 4) * 64 + Base64Value(s[4])>>)
         \o FromBase64(SubSeq(s, 5, Len(s)))

\* encodeBase64Bytes of the runtime; it reads its argument as an array.
encodeBase64Bytes(v) ==
    IF Tag(v) = "bytes" THEN Str(Base64(Val(v))) ELSE Throw("TypeError")

\* decodeBase64Bytes of the runtime.
decodeBase64Bytes(v) ==
    IF Tag(v) = "string" THEN Bytes(FromBase64(Val(v))) ELSE Throw("TypeError")

\* JSON.parse(JSON.stringify(v)): a property holding undefined is left out
\* of the text, an array element holding undefined becomes null.
RECURSIVE ParseStringify(_)
ParseStringify(v) ==
    CASE Tag(v) = "object" ->
             Obj([k \in {k \in DOMAIN Val(v) : Tag(Val(v)[k]) # "undefined"} |->
                     ParseStringify(Val(v)[k])])
      [] Tag(v) = "array" ->
             Arr([i \in DOMAIN Val(v) |->
                     IF Tag(Val(v)[i]) = "undefined" THEN Null
                     ELSE ParseStringify(Val(v)[i])])
      [] OTHER -> v

\* json["<key>"]: a property of a number or a string that is no own
\* property reads as undefined.
JGet(j, k) == IF Tag(j) = "object" THEN Get(j, k) ELSE Undefined

\* The first thrown exception among the elements of an array, if any.
FirstThrow(a) ==
    IF \E i \in DOMAIN Val(a) : IsThrow(Val(a)[i])
    THEN Val(a)[CHOOSE i \in DOMAIN Val(a) :
                    IsThrow(Val(a)[i]) /\ \A j \in DOMAIN Val(a) : IsThrow(Val(a)[j]) => i <= j]
    ELSE a

\* Initializes <T> with all fields set to their default value (JSON side).
RECURSIVE JSON_initialize(_)
JSON_initialize(T) ==
    LET fs == FieldsOf(T)
        init(f) ==
            IF f.optional THEN Undefined
            ELSE IF f.repeated THEN Arr(<<>>)
            ELSE IF f.read = "readMessage" /\ ~f.map THEN JSON_initialize(f.tsType)
            ELSE f.defaultValue
    IN  Obj([n \in FieldNames(T) |->
                init(fs[CHOOSE i \in DOMAIN fs : fs[i].name = n])])

\* The key written: json["<protoName>"] under useProtoFieldName, json["<jsonName>"] otherwise.
setField(c, field) == IF c.useProtoFieldName THEN field.protoName ELSE field.jsonName

\* The guard around the write of one field, emitted unless
\* emitFieldsWithDefaultValues is set.
JSONWriteGuard(c, field, v) ==
    IF c.emitFieldsWithDefaultValues THEN TRUE
    ELSE IF field.repeated \/ field.read = "readBytes" THEN HasLength(v)
    ELSE IF field.optional THEN NotNullish(v)
    ELSE IF field.read = "readEnum" THEN Truthy(v) /\ Truthy(_toInt(field.tsType, v))
    ELSE Truthy(v)

\* json[key] = value, unless computing the value threw.
SetJSON(json, key, value) == IF IsThrow(value) THEN value ELSE Put(json, key, value)

\* const _f_ = ...; json[key] = _f_ for an optional field, and only
\* if (Object.keys(_f_).length > 0) otherwise.
SetNested(json, key, field, nested) ==
    IF IsThrow(nested) THEN nested
    ELSE IF field.optional \/ DOMAIN Val(nested) # {} THEN Put(json, key, nested)
    ELSE json

RECURSIVE JSON_writeMessage(_, _, _)
\* x.map(<T>JSON._writeMessage)
WriteEach(c, T, a) ==
    IF Tag(a) # "array" THEN Throw("TypeError")
    ELSE FirstThrow(Arr([i \in DOMAIN Val(a) |-> JSON_writeMessage(c, T, Val(a)[i])]))

\* fromMapMessage of the entries written, unless writing one threw.
MapWritten(written) == IF IsThrow(written) THEN written ELSE fromMapMessage(written)

\* The assignment emitted for one field.
JSONAssign(c, field, v, json) ==
    IF field.read = "readMessage"
    THEN IF field.repeated
         THEN SetJSON(json, setField(c, field), WriteEach(c, field.tsType, v))
         ELSE IF field.map
         THEN SetNested(json, setField(c, field), field,
                        MapWritten(WriteEach(c, field.tsType, toMapMessage(v))))
         ELSE SetNested(json, setField(c, field), field,
                        JSON_writeMessage(c, field.tsType, v))
    ELSE IF field.tsType = "bigint"
    THEN SetJSON(json, setField(c, field),
                 IF field.repeated
                 THEN (IF Tag(v) = "array"
                       THEN Arr([i \in DOMAIN Val(v) |-> Str(DecString(Val(Val(v)[i])))])
                       ELSE Throw("TypeError"))
                 ELSE IF Tag(v) = "bigint" THEN Str(DecString(Val(v)))
                 ELSE Throw("TypeError"))
    ELSE IF field.read = "readBytes"
    THEN SetJSON(json, setField(c, field),
                 IF field.repeated
                 THEN (IF Tag(v) = "array"
                       THEN FirstThrow(Arr([i \in DOMAIN Val(v) |-> encodeBase64Bytes(Val(v)[i])]))
                       ELSE Throw("TypeError"))
                 ELSE encodeBase64Bytes(v))
    ELSE SetJSON(json, setField(c, field), v)

\* The statement emitted for one field: guard and assignment.
JSONWriteField(c, field, m, json) ==
    IF JSONWriteGuard(c, field, Get(m, field.name))
    THEN JSONAssign(c, field, Get(m, field.name), json)
    ELSE json

\* The statements of the fields from the i-th on, in field order.
RECURSIVE JSONWriteFields(_, _, _, _, _)
JSONWriteFields(c, T, m, i, json) ==
    IF i > Len(FieldsOf(T)) \/ IsThrow(json) THEN json
    ELSE JSONWriteFields(c, T, m, i + 1, JSONWriteField(c, FieldsOf(T)[i], m, json))

\* <T>JSON._writeMessage: const json = {}; ...; return json.  Reading a field
\* of a message that is undefined throws.
JSON_writeMessage(c, T, m) ==
    IF FieldsOf(T) = <<>> THEN EmptyObj
    ELSE IF Tag(m) # "object" THEN Throw("TypeError")
    ELSE JSONWriteFields(c, T, m, 1, EmptyObj)

\* getField with the fallbacks in another order: the attribute name first.
getFieldNameFirst(field, json) ==
    Coalesce(Coalesce(JGet(json, field.name), JGet(json, field.jsonName)),
             JGet(json, field.protoName))

\* const _f_ = json["<jsonName>"] ?? json["<name>"] ?? json["<protoName>"],
\* a key that repeats an earlier one being left out.
getField(field, json) ==
    Coalesce(Coalesce(JGet(json, field.jsonName),
                      IF field.name # field.jsonName
                      THEN JGet(json, field.name) ELSE Undefined),
             IF field.protoName # field.name
             THEN JGet(json, field.protoName) ELSE Undefined)

RECURSIVE JSON_readMessage(_, _, _)
\* toMapMessage(_f_).map(<T>JSON._readMessage): map calls the function with
\* the element and its index.
ReadEntries(T, a) ==
    Arr([i \in DOMAIN Val(a) |-> JSON_readMessage(T, Val(a)[i], Num(i - 1))])

\* for (const item of _f_) { const m = <T>.initialize(); <T>JSON._readMessage(m, item); ... push(m) }
ReadItems(T, a) ==
    FirstThrow(Arr([i \in DOMAIN Val(a) |-> JSON_readMessage(T, initialize(T), Val(a)[i])]))

\* The value assigned to msg.<name> from a truthy _f_.
JSONFieldValue(field, old, f) ==
    IF field.read = "readMessage"
    THEN IF field.map
         THEN (IF Tag(f) = "object"
               THEN fromMapMessage(ReadEntries(field.tsType, toMapMessage(f)))
               ELSE EmptyObj)
         ELSE IF field.repeated
         THEN (IF Tag(f) = "array"
               THEN (IF IsThrow(ReadItems(field.tsType, f)) THEN ReadItems(field.tsType, f)
                     ELSE Push(old, Val(ReadItems(field.tsType, f))))
               ELSE Throw("TypeError"))
         ELSE JSON_readMessage(field.tsType, initialize(field.tsType), f)
    ELSE IF field.tsType = "bigint"
    THEN IF field.repeated
         THEN (IF Tag(f) = "array"
               THEN Arr([i \in DOMAIN Val(f) |-> Big(ParseDec(ToStr(Val(f)[i])))])
               ELSE Throw("TypeError"))
         ELSE IF Tag(f) \in {"number", "bigint"} \/ (Tag(f) = "string" /\ IsDecString(Val(f)))
         THEN Big(ParseDec(ToStr(f)))
         ELSE Throw("SyntaxError")
    ELSE IF field.read = "readBytes"
    THEN IF field.repeated
         THEN (IF Tag(f) = "array"
               THEN FirstThrow(Arr([i \in DOMAIN Val(f) |-> decodeBase64Bytes(Val(f)[i])]))
               ELSE Throw("TypeError"))
         ELSE decodeBase64Bytes(f)
    ELSE f

AssignJSON(field, m, value) == IF IsThrow(value) THEN value ELSE Put(m, field.name, value)

\* const _f_ = <getField>; if (_f_) { msg.<name> = ... }
JSONReadValue(field, m, f) ==
    IF Truthy(f) THEN AssignJSON(field, m, JSONFieldValue(field, Get(m, field.name), f))
    ELSE m

JSONReadField(field, m, json) == JSONReadValue(field, m, getField(field, json))

RECURSIVE JSONReadFields(_, _, _, _)
JSONReadFields(T, m, i, json) ==
    IF i > Len(FieldsOf(T)) \/ IsThrow(m) THEN m
    ELSE JSONReadFields(T, JSONReadField(FieldsOf(T)[i], m, json), i + 1, json)

\* <T>JSON._readMessage(msg, json); reading a property of null or undefined throws.
JSON_readMessage(T, m, json) ==
    IF FieldsOf(T) = <<>> THEN m
    ELSE IF ~NotNullish(json) THEN Throw("TypeError")
    ELSE JSONReadFields(T, m, 1, json)

\* <T>JSON.encode up to JSON.stringify: the object handed to it.
JSON_encode(c, T, m) == JSON_writeMessage(c, T, m)

\* <T>JSON.decode of the text of the object j.
JSON_decode(T, j) ==
    IF FieldsOf(T) = <<>> THEN EmptyObj
    ELSE JSON_readMessage(T, JSON_initialize(T), ParseStringify(j))

(***************************************************************************)
(* Messages and wire fields the model runs the codecs on.                  *)
(***************************************************************************)
InnerValues == {Obj([a |-> Num(n)]) : n \in {0, 1}}

Values(T) ==
    CASE T = "M" ->
             {Obj([n |-> Num(n), s |-> Str(s), x |-> Big(x), d |-> Bytes(d), b |-> Bool(b)]) :
                 n \in {0, 1, 150, 0 - 1}, s \in {<<>>, sHi}, x \in {0, 5},
                 d \in {<<>>, <<1, 255>>}, b \in BOOLEAN}
      [] T = "O" ->
             {Obj([oi |-> oi, ob |-> ob, oe |-> oe]) :
                 oi \in {Undefined, Num(0), Num(7)},
                 ob \in {Undefined, Bytes(<<>>), Bytes(<<1>>)},
                 oe \in {Undefined, Str(sA), Str(sB)}}
      [] T = "P" ->
             {Obj([xs |-> Arr(xs), ss |-> Arr(ss), es |-> Arr(es)]) :
                 xs \in {<<>>, <<Num(1)>>, <<Num(1), Num(2), Num(3)>>, <<Num(0), Num(150)>>},
                 ss \in {<<>>, <<Str(sHi)>>, <<Str(<<>>), Str(sa)>>},
                 es \in {<<>>, <<Str(sB), Str(sA)>>, <<Num(7)>>}}
      [] T = "En" -> {Obj([e |-> e]) : e \in {Str(sA), Str(sB), Num(7)}}
      [] T = "Nest" ->
             {Obj([inner |-> i, oin |-> o, rin |-> Arr(r), em |-> EmptyObj]) :
                 i \in InnerValues, o \in {Undefined} \cup InnerValues,
                 r \in {<<>>, <<Obj([a |-> Num(1)]), Obj([a |-> Num(0)])>>}}
      [] T = "Mm" ->
             {Obj([m |-> m]) :
                 m \in {EmptyObj, Obj(sa :> Num(1)), Obj(sa :> Num(0)),
                        Obj((sa :> Num(1)) @@ (sb :> Num(2))), Obj(<<>> :> Num(1))}}
      [] T = "Mx" ->
             {Obj([m |-> m]) : m \in {EmptyObj, Obj(sa :> Big(5)), Obj(sa :> Big(0))}}
      [] T = "Nm" ->
             {Obj([fooBar |-> Num(f), bazQux |-> Num(q)]) : f \in {0, 5}, q \in {0, 5}}

\* The entries of map<string, int32> as they may arrive on the wire: the
\* key and the value are each present or absent, in either order.
Entry(key, hasKey, value, hasValue, valueFirst) ==
    [key |-> key, hasKey |-> hasKey, value |-> value, hasValue |-> hasValue,
     valueFirst |-> valueFirst]

Entries ==
    {Entry(sa, TRUE, 1, TRUE, FALSE),
     Entry(sa, TRUE, 2, TRUE, TRUE),
     Entry(sb, TRUE, 1, TRUE, FALSE),
     Entry(sb, TRUE, 0, FALSE, FALSE),
     Entry(<<>>, FALSE, 1, TRUE, FALSE)}

EntryItem(e) ==
    LET k == IF e.hasKey THEN <<<<1, 2, e.key>>>> ELSE <<>>
        v == IF e.hasValue THEN <<<<2, 0, <<e.value>>>>>> ELSE <<>>
    IN  <<1, 2, getResultBuffer(IF e.valueFirst THEN v \o k ELSE k \o v)>>

\* Fields no message type of the model declares, one of each wire type; the
\* payloads hold bytes that read as tags and as continuation bytes.
UnknownFields ==
    {<<9, 0, <<172, 2>>>>,
     <<9, 1, <<128, 128, 128, 128, 128, 128, 128, 8>>>>,
     <<9, 2, <<8, 1>>>>,
     <<9, 5, <<8, 129, 2, 3>>>>}

KnownFields(T) ==
    CASE T = "M" -> {<<1, 0, <<150, 1>>>>, <<2, 2, sHi>>, <<1, 0, SignedVarint(0 - 1)>>}
      [] T = "O" -> {<<1, 0, <<0>>>>, <<2, 2, <<>>>>, <<3, 0, <<1>>>>}
      [] T = "P" -> {<<1, 2, <<1, 2, 3>>>>, <<1, 0, <<1>>>>, <<1, 0, <<2>>>>,
                     <<1, 0, <<3>>>>, <<1, 2, <<>>>>, <<2, 2, sHi>>,
                     <<3, 0, <<7>>>>, <<3, 2, <<1, 0>>>>}
      [] T = "En" -> {<<1, 0, <<7>>>>, <<1, 0, <<1>>>>, <<1, 0, <<0>>>>, <<1, 0, <<2>>>>}
      [] T = "Nest" -> {<<1, 2, <<8, 1>>>>, <<2, 2, <<>>>>, <<3, 2, <<72, 5, 8, 1>>>>,
                        <<4, 2, <<>>>>}
      [] T = "Mm" -> {EntryItem(e) : e \in Entries}
      [] T = "Nm" -> {<<1, 0, <<5>>>>, <<2, 0, <<5>>>>}

IsKnown(T, item) == item[1] \in FieldNumbers(T)

DefaultConfig == [emitFieldsWithDefaultValues |-> FALSE, useProtoFieldName |-> FALSE]

(***************************************************************************)
(* The parts of the program a specification does not exercise stay as      *)
(* they are at start-up.                                                   *)
(***************************************************************************)
DEFAULT_IMPORT_TRACKER == [hasBytes |-> FALSE]

CodecIdle ==
    /\ ty = "M"
    /\ cfg = DefaultConfig
    /\ msg = Undefined
    /\ wire = <<>>
    /\ doc = Undefined

\* The buffers of the codec specifications are well formed: no assertion of
\* the decoder fails on them.
DecoderIdle ==
    /\ asserts = FALSE
    /\ decoder = BinaryDecoder
    /\ before = BinaryDecoder
    /\ args = <<>>
    /\ calls = 0

CacheIdle ==
    /\ heap = <<>>
    /\ instanceCache_ = <<>>
    /\ cacheBefore = <<>>
    /\ live = 0

CompileIdle ==
    /\ request = <<>>
    /\ response = <<>>
    /\ IMPORT_TRACKER = DEFAULT_IMPORT_TRACKER
    /\ env = Undefined
    /\ options = [isTS |-> FALSE, emitDeclarationOnly |-> FALSE]
    /\ position = 0

EmitIdle ==
    /\ comment = <<>>
    /\ stack = <<>>

StreamIdle ==
    /\ stdin = [pending |-> <<>>, arrived |-> <<>>, buffered |-> <<>>,
                readable |-> FALSE, eof |-> FALSE, ended |-> FALSE]
    /\ chunks = <<>>
    /\ stdout = <<>>

(***************************************************************************)
(* The binary codec in use: a caller fills a message and encodes it, or    *)
(* receives a buffer field by field; either buffer is decoded, and a       *)
(* decoded message may be encoded again.                                   *)
(***************************************************************************)
Init ==
    /\ ty \in MessageTypes
    /\ cfg = DefaultConfig
    /\ msg = initialize(ty)
    /\ wire = <<>>
    /\ doc = Undefined
    /\ out = Undefined
    /\ pc = "init"
    /\ DecoderIdle /\ CacheIdle /\ CompileIdle /\ StreamIdle /\ EmitIdle

\* The caller fills in the message.
Set(m) ==
    /\ pc = "init"
    /\ msg' = m
    /\ pc' = "set"
    /\ UNCHANGED <<ty, cfg, wire, doc, out>>
    /\ UNCHANGED <<decoderVars, cacheVars, compileVars, streamVars, emitVars>>

\* T.encode(msg)
Encode ==
    /\ pc \in {"init", "set"}
    /\ wire' = _writeMessage(ty, msg)
    /\ pc' = "encoded"
    /\ UNCHANGED <<ty, cfg, msg, doc, out>>
    /\ UNCHANGED <<decoderVars, cacheVars, compileVars, streamVars, emitVars>>

\* One more field arrives in a buffer received from elsewhere.
Receive(item) ==
    /\ pc \in {"init", "received"}
    /\ Len(wire) < MaxWire
    /\ wire' = Append(wire, item)
    /\ pc' = "received"
    /\ UNCHANGED <<ty, cfg, msg, doc, out>>
    /\ UNCHANGED <<decoderVars, cacheVars, compileVars, streamVars, emitVars>>

\* T.decode(bytes)
Decode ==
    /\ pc \in {"encoded", "received"}
    /\ out' = decode(ty, getResultBuffer(wire))
    /\ pc' = IF pc = "encoded" THEN "roundtrip" ELSE "decoded"
    /\ UNCHANGED <<ty, cfg, msg, wire, doc>>
    /\ UNCHANGED <<decoderVars, cacheVars, compileVars, streamVars, emitVars>>

\* The caller goes on with the message it decoded.
Adopt ==
    /\ pc = "decoded"
    /\ ~IsThrow(out)
    /\ msg' = out
    /\ pc' = "set"
    /\ UNCHANGED <<ty, cfg, wire, doc, out>>
    /\ UNCHANGED <<decoderVars, cacheVars, compileVars, streamVars, emitVars>>

Next ==
    \/ \E m \in Values(ty) : Set(m)
    \/ Encode
    \/ \E item \in KnownFields(ty) \cup UnknownFields : Receive(item)
    \/ Decode
    \/ Adopt

Spec == Init /\ [][Next]_vars

(***************************************************************************)
(* The JSON codec in use, under each configuration of the generator: a     *)
(* caller fills a message and encodes it, or supplies a JSON text; either  *)
(* is decoded.                                                             *)
(***************************************************************************)
Configs == [emitFieldsWithDefaultValues : BOOLEAN, useProtoFieldName : BOOLEAN]

sAf8 == <<65, 102, 56, 61>>     \* "Af8=", the base64 text of the bytes 1, 255

\* The keys a JSON text may use for the fields of Nm.
NmKeys == {"fooBar", "foo_bar", "bq", "bazQux", "baz_qux"}

\* The JSON texts supplied, as the objects they parse to.
JSONInputs(T) ==
    CASE T = "M" ->
             {EmptyObj,
              Obj([n |-> Num(1), s |-> Str(sHi), x |-> Str(<<53>>), d |-> Str(sAf8),
                   b |-> Bool(TRUE)])}
      [] T = "O" -> {Obj([oi |-> Num(0)]), Obj([oe |-> Str(sB), ob |-> Str(sAf8)])}
      [] T = "P" ->
             {Obj([xs |-> Arr(<<Num(1), Num(2)>>), ss |-> Arr(<<Str(sHi)>>),
                   es |-> Arr(<<Str(sB), Num(7)>>)])}
      [] T = "En" -> {Obj([e |-> Str(sB)]), Obj([e |-> Num(7)])}
      [] T = "Nest" ->
             {Obj([inner |-> Obj([a |-> Num(1)]),
                   rin |-> Arr(<<Obj([a |-> Num(1)]), EmptyObj>>)])}
      [] T = "Mm" -> {Obj([m |-> EmptyObj]), Obj([m |-> Obj((sa :> Num(1)) @@ (sb :> Num(2)))])}
      [] T = "Mx" -> {Obj([m |-> Obj(sa :> Str(<<53>>))])}
      [] T = "Nm" ->
             {Obj([k \in {k \in NmKeys : f[k] # Undefined} |-> f[k]]) :
                 f \in [NmKeys -> {Undefined, Null, Num(5), Num(6)}]}

InitJSON ==
    /\ ty \in JSONMessageTypes
    /\ cfg \in Configs
    /\ msg = JSON_initialize(ty)
    /\ wire = <<>>
    /\ doc = Undefined
    /\ out = Undefined
    /\ pc = "init"
    /\ DecoderIdle /\ CacheIdle /\ CompileIdle /\ StreamIdle /\ EmitIdle

\* <T>JSON.encode(msg), up to the call of JSON.stringify.
JSONEncode ==
    /\ pc \in {"init", "set"}
    /\ doc' = JSON_encode(cfg, ty, msg)
    /\ pc' = "jsonencoded"
    /\ UNCHANGED <<ty, cfg, msg, wire, out>>
    /\ UNCHANGED <<decoderVars, cacheVars, compileVars, streamVars, emitVars>>

\* A JSON text arrives from elsewhere.
SupplyJSON(j) ==
    /\ pc = "init"
    /\ doc' = j
    /\ pc' = "supplied"
    /\ UNCHANGED <<ty, cfg, msg, wire, out>>
    /\ UNCHANGED <<decoderVars, cacheVars, compileVars, streamVars, emitVars>>

\* <T>JSON.decode(text) of the text encode returned or of the text supplied.
JSONDecode ==
    /\ pc \in {"jsonencoded", "supplied"}
    /\ ~IsThrow(doc)
    /\ out' = JSON_decode(ty, doc)
    /\ pc' = IF pc = "jsonencoded" THEN "jsonroundtrip" ELSE "jsondecoded"
    /\ UNCHANGED <<ty, cfg, msg, wire, doc>>
    /\ UNCHANGED <<decoderVars, cacheVars, compileVars, streamVars, emitVars>>

NextJSON ==
    \/ \E m \in Values(ty) : Set(m)
    \/ JSONEncode
    \/ \E j \in JSONInputs(ty) : SupplyJSON(j)
    \/ JSONDecode

SpecJSON == InitJSON /\ [][NextJSON]_vars

(***************************************************************************)
(* Properties of the binary codec.                                         *)
(***************************************************************************)
\* A message up to the equivalence of an unset field and an absent one:
\* properties holding undefined are dropped, at every depth.
RECURSIVE Normal(_)
Normal(v) ==
    CASE Tag(v) = "object" ->
             Obj([k \in {k \in DOMAIN Val(v) : Tag(Val(v)[k]) # "undefined"} |->
                     Normal(Val(v)[k])])
      [] Tag(v) = "array" -> Arr([i \in DOMAIN Val(v) |-> Normal(Val(v)[i])])
      [] OTHER -> v

\* The sequences a sequence can be reordered into.
Perms(s) ==
    {[i \in DOMAIN s |-> s[f[i]]] :
        f \in {g \in [DOMAIN s -> DOMAIN s] : \A i, j \in DOMAIN s : g[i] = g[j] => i = j}}

\* The fields of the wire that carry field number index, in wire order.
FieldsNumbered(items, index) == SelectSeq(items, LAMBDA it : it[1] = index)

\* C1: binary round trip.  Decoding the buffer a message was encoded into
\* gives the message back, an unset optional being equal to an absent one.
C1_BinaryRoundTrip == pc = "roundtrip" => Normal(out) = Normal(msg)

\* C3: after encode, an optional field of any type is on the wire if and
\* only if its value is set (neither undefined nor null), a set default
\* value included.
C3_OptionalWrittenIffSet ==
    pc = "encoded" =>
        \A i \in DOMAIN FieldsOf(ty) :
            FieldsOf(ty)[i].optional =>
                ((\E j \in DOMAIN wire : wire[j][1] = FieldsOf(ty)[i].index)
                    <=> NotNullish(Get(msg, FieldsOf(ty)[i].name)))

\* The elements a repeated varint field carries on the wire, in wire order:
\* those of a packed block (each element of the model's blocks is one byte)
\* and the one of a non-delimited occurrence.
RECURSIVE ElementsOf(_, _)
ElementsOf(items, index) ==
    IF items = <<>> THEN <<>>
    ELSE (IF Head(items)[1] # index THEN <<>>
          ELSE IF Head(items)[2] = 2 THEN Head(items)[3]
          ELSE <<Head(items)[3][1]>>)
         \o ElementsOf(Tail(items), index)

\* C4: a repeated scalar field with a readPacked tag decodes to its elements
\* in wire order, whether they arrive in packed blocks, one per occurrence,
\* or in a mix of both.
C4_PackedAndUnpackedAgree ==
    (pc = "decoded" /\ ty = "P") =>
        /\ Get(out, "xs") =
               Arr([i \in DOMAIN ElementsOf(wire, 1) |-> Num(ElementsOf(wire, 1)[i])])
        /\ Get(out, "es") =
               Arr([i \in DOMAIN ElementsOf(wire, 3) |->
                       IF ElementsOf(wire, 3)[i] = 0 THEN Str(sA)
                       ELSE IF ElementsOf(wire, 3)[i] = 1 THEN Str(sB)
                       ELSE Num(ElementsOf(wire, 3)[i])])

C4_MixedBlocksDecoded ==
    /\ pc = "decoded" /\ ty = "P"
    /\ wire = <<<<1, 0, <<1>>>>, <<1, 2, <<1, 2, 3>>>>, <<1, 0, <<2>>>>>>
    /\ Get(out, "xs") = Arr(<<Num(1), Num(1), Num(2), Num(3), Num(2)>>)

EnumInts == {0 - 1, 0, 1, 2, 7}

\* C5: _fromInt gives the enumerator's name, or the number itself when no
\* enumerator has it; _toInt undoes _fromInt; an enum field decoded to an
\* unknown non-zero number passes the write guard and is encoded as that
\* number again.
C5_EnumConversions ==
    /\ \A i \in EnumInts :
          /\ _fromInt("E", i) =
                 (IF i = 0 THEN Str(sA) ELSE IF i = 1 THEN Str(sB) ELSE Num(i))
          /\ _toInt("E", _fromInt("E", i)) = Num(i)
    /\ (pc = "decoded" /\ ty = "En" /\ FieldsNumbered(wire, 1) # <<>>) =>
          LET i == ElementsOf(wire, 1)[Len(ElementsOf(wire, 1))]
          IN  Get(out, "e") =
                  (IF i = 0 THEN Str(sA) ELSE IF i = 1 THEN Str(sB) ELSE Num(i))
    /\ (pc = "encoded" /\ ty = "En" /\ msg = out /\ Tag(Get(msg, "e")) = "number") =>
          /\ WriteGuard(FieldsOf("En")[1], Get(msg, "e"))
          /\ wire = <<<<1, 0, <<Val(Get(msg, "e"))>>>>>>

C5_UnknownEnumReencoded ==
    /\ pc = "encoded" /\ ty = "En" /\ msg = out
    /\ Get(msg, "e") = Num(7)
    /\ wire = <<<<1, 0, <<7>>>>>>

\* The entries the wire carries for the map field, in wire order.
EntryOf(item) == CHOOSE e \in Entries : EntryItem(e) = item
EntriesOn(items) ==
    [i \in DOMAIN FieldsNumbered(items, 1) |-> EntryOf(FieldsNumbered(items, 1)[i])]

\* The mapping in which every key holds the value of the last entry with it.
LastEntryWins(es) ==
    Obj([k \in {es[i].key : i \in DOMAIN es} |->
            LET last == CHOOSE i \in DOMAIN es :
                            /\ es[i].key = k
                            /\ \A j \in DOMAIN es : es[j].key = k => j <= i
            IN  IF es[last].hasValue THEN Num(es[last].value) ELSE Undefined])

DefaultsFilledIn(es) ==
    Obj([k \in {es[i].key : i \in DOMAIN es} |->
            Num(es[CHOOSE i \in DOMAIN es :
                       /\ es[i].key = k
                       /\ \A j \in DOMAIN es : es[j].key = k => j <= i].value)])

\* C28: binary decoding of a map entry whose key or value is absent from the
\* wire, as it is when it equals the default of its type, completes without
\* error and stores the default: an entry without a key is stored under the
\* default key as a string, and an entry without a value maps its key to the
\* default value, not to undefined.
C28_AbsentEntryFieldIsDefault ==
    (/\ pc = "decoded" /\ ty = "Mm"
     /\ \E i \in DOMAIN EntriesOn(wire) :
            ~EntriesOn(wire)[i].hasKey \/ ~EntriesOn(wire)[i].hasValue) =>
        /\ ~IsThrow(out)
        /\ Get(out, "m") = DefaultsFilledIn(EntriesOn(wire))

C7_UnknownFieldsDropped ==
    /\ pc = "decoded" =>
          out = decode(ty, getResultBuffer(SelectSeq(wire, LAMBDA it : IsKnown(ty, it))))
    /\ \A u \in UnknownFields :
          getCursor(skipField(nextField(BinaryReader(FieldBytes(u) \o <<8, 1>>)).r).decoder_)
              = Len(FieldBytes(u))

C7_KnownFieldAfterUnknown ==
    /\ pc = "decoded" /\ ty = "M"
    /\ wire = <<<<9, 0, <<172, 2>>>>, <<1, 0, <<150, 1>>>>,
                <<9, 1, <<128, 128, 128, 128, 128, 128, 128, 8>>>>>>
    /\ Get(out, "n") = Num(150)

(***************************************************************************)
(* Properties of the JSON codec.                                           *)
(***************************************************************************)
\* C2: JSON round trip.  Under every configuration, decoding the text a
\* message was encoded into gives the message back, an unset optional being
\* equal to an absent one.
C2_JSONRoundTrip == pc = "jsonroundtrip" => Normal(out) = Normal(msg)

\* The value the three keys of a field select: the one under jsonName, else
\* the one under the attribute name, else the one under protoName.
Selected(field, j) ==
    IF NotNullish(JGet(j, field.jsonName)) THEN JGet(j, field.jsonName)
    ELSE IF NotNullish(JGet(j, field.name)) THEN JGet(j, field.name)
    ELSE JGet(j, field.protoName)

C9_LowerCamelNotAccepted ==
    (pc = "jsondecoded" /\ ty = "Nm") =>
        \A i \in DOMAIN FieldsOf(ty) :
            FieldsOf(ty)[i].jsonName # FieldsOf(ty)[i].name =>
                /\ \A k \in {FieldsOf(ty)[i].jsonName, FieldsOf(ty)[i].protoName} :
                       (DOMAIN Val(doc) = {k} /\ Truthy(Get(doc, k))) =>
                           Get(out, FieldsOf(ty)[i].name) = Get(doc, k)
                /\ (/\ ~NotNullish(JGet(doc, FieldsOf(ty)[i].jsonName))
                    /\ ~NotNullish(JGet(doc, FieldsOf(ty)[i].protoName))) =>
                       Get(out, FieldsOf(ty)[i].name) = FieldsOf(ty)[i].defaultValue

\* A field holds a non-default value: a set one for an optional field, one
\* other than the value initialize gives otherwise.
NonDefault(T, field, v) ==
    IF field.optional THEN NotNullish(v)
    ELSE v # Get(JSON_initialize(T), field.name)

\* C10: the object _writeMessage returns has, with emitFieldsWithDefaultValues
\* false, a key only for fields holding a non-default value and, with it
\* true, a key for every field of the message.
C10_JSONOmission ==
    (pc = "jsonencoded" /\ ~IsThrow(doc)) =>
        \A i \in DOMAIN FieldsOf(ty) :
            IF cfg.emitFieldsWithDefaultValues
            THEN setField(cfg, FieldsOf(ty)[i]) \in DOMAIN Val(doc)
            ELSE setField(cfg, FieldsOf(ty)[i]) \in DOMAIN Val(doc) =>
                     NonDefault(ty, FieldsOf(ty)[i], Get(msg, FieldsOf(ty)[i].name))

\* The scalar fields with explicit presence, and the defaults of the scalar
\* types.
OptionalScalar(field) == field.optional /\ field.read \notin {"readMessage", "readBytes"}
ScalarDefaults == {Num(0), Bool(FALSE), Str(<<>>)}

\* C29: JSON decoding keeps explicit presence.  For a proto3 optional scalar
\* field, an input object that has the field's key with the default value of
\* the type, 0, false or "", decodes to a message in which the field is set
\* to that value, not left unset.
C29_JSONKeepsPresence ==
    (pc = "jsondecoded" /\ ~IsThrow(out)) =>
        \A i \in DOMAIN FieldsOf(ty) :
            (/\ OptionalScalar(FieldsOf(ty)[i])
             /\ JGet(doc, FieldsOf(ty)[i].name) \in ScalarDefaults) =>
                Get(out, FieldsOf(ty)[i].name) = JGet(doc, FieldsOf(ty)[i].name)

\* The field of the values of the entries of a map field.
ValueField(field) == FieldsOf(field.tsType)[2]

\* C30: JSON decoding of a map field converts the value of every entry with
\* the JSON reader of the value type, as for a field of that type that is no
\* map: a decimal string becomes a 64-bit integer, a base64 string becomes
\* bytes, a nested object becomes a message; and JSON encoding of a map keeps
\* every entry, entries whose value is the default of the type included.
C30_JSONMapValues ==
    \A i \in DOMAIN FieldsOf(ty) :
        FieldsOf(ty)[i].map =>
            /\ (pc = "jsondecoded" /\ Tag(JGet(doc, FieldsOf(ty)[i].name)) = "object") =>
                   /\ Tag(Get(out, FieldsOf(ty)[i].name)) = "object"
                   /\ \A k \in DOMAIN Val(JGet(doc, FieldsOf(ty)[i].name)) :
                          Get(Get(out, FieldsOf(ty)[i].name), k) =
                              JSONFieldValue(ValueField(FieldsOf(ty)[i]), Undefined,
                                             Get(JGet(doc, FieldsOf(ty)[i].name), k))
            /\ (/\ pc = "jsonencoded" /\ ~IsThrow(doc)
                /\ DOMAIN Val(Get(msg, FieldsOf(ty)[i].name)) # {}) =>
                   /\ Tag(JGet(doc, setField(cfg, FieldsOf(ty)[i]))) = "object"
                   /\ \A k \in DOMAIN Val(Get(msg, FieldsOf(ty)[i].name)) :
                          Get(JGet(doc, setField(cfg, FieldsOf(ty)[i])), k) # Undefined


(***************************************************************************)
(* The decoder on its own: a decoder is constructed over a block of bytes  *)
(* and its methods are called on it, in any order.                         *)
(***************************************************************************)
MaxCalls == 2         \* methods called on one decoder
MaxRun == 11          \* continuation bytes in a row in a block
MaxStr == 2           \* characters of a string

\* Bit k of a dword kept in its signed reading.
Bit(x, k) ==
    IF k = 31 THEN (IF x < 0 THEN 1 ELSE 0)
    ELSE ((IF x < 0 THEN x - MinInt32 ELSE x) \div Pow2(k)) % 2

\* An unsigned 64-bit integer u is the record of its dwords, lo = u mod 2^32
\* and hi = u div 2^32.  Bit k of u, and bits 7i .. 7i + 6 of u.
U64Bit(u, k) == IF k < 32 THEN Bit(u.lo, k) ELSE IF k < 64 THEN Bit(u.hi, k - 32) ELSE 0

Group(u, i) ==
    U64Bit(u, 7 * i) + 2 * U64Bit(u, 7 * i + 1) + 4 * U64Bit(u, 7 * i + 2)
    + 8 * U64Bit(u, 7 * i + 3) + 16 * U64Bit(u, 7 * i + 4)
    + 32 * U64Bit(u, 7 * i + 5) + 64 * U64Bit(u, 7 * i + 6)

\* The varint encoding of u: its base-128 digits, least significant first,
\* up to the last one that is not zero, each but the last with bit 7 set.
VarintLen(u) ==
    CHOOSE n \in 1..10 :
        /\ \A i \in n..9 : Group(u, i) = 0
        /\ n > 1 => Group(u, n - 1) # 0

VarintOf(u) ==
    [i \in 1..VarintLen(u) |-> Group(u, i - 1) + (IF i < VarintLen(u) THEN 128 ELSE 0)]

Dwords == {0, 1, 300, 16384, 2097152, 268435456, MinInt32, 0 - 1}

Uint64s == [lo : Dwords, hi : Dwords]

\* Each of them with its encoding.
Varints == {[u |-> u, bytes |-> VarintOf(u)] : u \in Uint64s}

\* The UTF-8 bytes of a string of UTF-16 code units without lone surrogates.
RECURSIVE Utf8Bytes(_)
Utf8Bytes(s) ==
    IF s = <<>> THEN <<>>
    ELSE IF Head(s) < 128 THEN <<Head(s)>> \o Utf8Bytes(Tail(s))
    ELSE IF Head(s) < 2048
    THEN <<192 + (Head(s) \div 64), 128 + (Head(s) % 64)>> \o Utf8Bytes(Tail(s))
    ELSE IF Head(s) \in 55296..56319
    THEN LET cp == 65536 + (Head(s) - 55296) * 1024 + (s[2] - 56320)
         IN  <<240 + (cp \div 262144), 128 + ((cp \div 4096) % 64),
               128 + ((cp \div 64) % 64), 128 + (cp % 64)>> \o Utf8Bytes(Tail(Tail(s)))
    ELSE <<224 + (Head(s) \div 4096), 128 + ((Head(s) \div 64) % 64), 128 + (Head(s) % 64)>>
         \o Utf8Bytes(Tail(s))

\* Characters at the ends of the 1-, 2-, 3- and 4-byte ranges of UTF-8.
Chars ==
    {<<65>>, <<128>>, <<2047>>, <<2048>>, <<65535>>, <<55296, 56320>>, <<55357, 56832>>,
     <<56319, 57343>>}

RECURSIVE StringsOf(_)
StringsOf(n) ==
    IF n = 0 THEN {<<>>}
    ELSE StringsOf(n - 1) \cup {s \o c : s \in StringsOf(n - 1), c \in Chars}

Strings == StringsOf(MaxStr)

\* Each of them with its UTF-8 bytes.
Texts == {[s |-> s, bytes |-> Utf8Bytes(s)] : s \in Strings}

\* Two characters with a continuation byte between them that no lead byte
\* announces, and the string of the two characters.
StrayTexts ==
    {[s |-> a \o b, bytes |-> Utf8Bytes(a) \o <<c>> \o Utf8Bytes(b)] :
        a \in {<<>>, <<65>>, <<2048>>}, c \in {128, 191}, b \in {<<>>, <<65>>, <<55296, 56320>>}}

\* A run of n continuation bytes.
Run(n, c) == [i \in 1..n |-> c]

\* The blocks a decoder is constructed over: varints with and without bytes
\* after them, runs of continuation bytes with and without a terminator,
\* UTF-8 texts, and UTF-8 texts with a continuation byte out of place.
Blocks ==
    {e.bytes \o t : e \in Varints, t \in {<<>>, <<255, 1>>}}
    \cup {Run(n, c) \o t : n \in 0..MaxRun, c \in {128, 255}, t \in {<<>>, <<1>>}}
    \cup {e.bytes : e \in Texts \cup StrayTexts}

\* The block a decoder is seated on again.
Reseat == <<8, 150, 1, 255>>

InitDecoder ==
    /\ CodecIdle /\ CacheIdle /\ CompileIdle /\ StreamIdle /\ EmitIdle
    /\ asserts \in BOOLEAN
    /\ \E data \in Blocks : decoder = setBlock(BinaryDecoder, data, NoByte, NoByte)
    /\ before = BinaryDecoder
    /\ args = <<>>
    /\ calls = 0
    /\ out = Undefined
    /\ pc = "init"

\* A method is called with the arguments a.
Calling(op, a) ==
    /\ calls < MaxCalls
    /\ calls' = calls + 1
    /\ pc' = op
    /\ args' = a
    /\ before' = decoder
    /\ UNCHANGED <<asserts, codecVars, cacheVars, compileVars, streamVars, emitVars>>

\* The call returns, or throws, and leaves the decoder as r.d.
Returned(r) ==
    /\ decoder' = r.d
    /\ out' = r.v

\* The method has read from a block: bytes_ is not null.
Seated == Tag(decoder.bytes_) = "bytes"

\* An assertion made after the method has changed the decoder to d.
Asserted(d, holds, v) == IF asserts /\ ~holds THEN Ret(d, AssertionError) ELSE Ret(d, v)

\* decoder.setBlock(data, start, length)
SetBlock(data, start, length) ==
    /\ Calling("setBlock", <<start, length>>)
    /\ Returned(Ret(setBlock(decoder, data, start, length), Undefined))

\* decoder.clear()
Clear ==
    /\ Calling("clear", <<>>)
    /\ Returned(Ret(clear(decoder), Undefined))

\* decoder.readSplitVarint64((lowBits, highBits) => [lowBits, highBits])
ReadSplitVarint64 ==
    /\ Seated
    /\ Calling("readSplitVarint64", <<>>)
    /\ Returned(readSplitVarint64Pair(decoder))

\* The assertions of readUnsignedVarint32: assert(false) after ten bytes with
\* the continuation bit, assert(this.cursor_ <= this.end_) before a return.
Varint32Asserts(d, r) ==
    /\ ~(r.d.cursor_ = d.cursor_ + 10 /\ Ge128(At(d, d.cursor_ + 9)))
    /\ r.d.cursor_ <= r.d.end_

Varint32Call(d, r) == Asserted(r.d, Varint32Asserts(d, r), Number(r))

\* decoder.readUnsignedVarint32()
ReadUnsignedVarint32 ==
    /\ Seated
    /\ Calling("readUnsignedVarint32", <<>>)
    /\ Returned(Varint32Call(decoder, readUnsignedVarint32(decoder)))

\* decoder.readSignedVarint32()
ReadSignedVarint32 ==
    /\ Seated
    /\ Calling("readSignedVarint32", <<>>)
    /\ Returned(Varint32Call(decoder, readSignedVarint32(decoder)))

\* decoder.unskipVarint(value), with the value readUnsignedVarint32 returned
UnskipVarint ==
    /\ pc = "readUnsignedVarint32" /\ Tag(out) = "number"
    /\ Calling("unskipVarint", <<out>>)
    /\ Returned(Ret(unskipVarint(decoder, out), Undefined))

\* decoder.readString(length)
StringCall(r) == Ret(r.d, Str(r.v))

ReadString(length) ==
    /\ Seated
    /\ Calling("readString", <<length>>)
    /\ Returned(StringCall(readString(decoder, length)))

\* readBytes: fail("Invalid byte length!") in the branch of an invalid
\* length, assert(this.cursor_ <= this.end_) after the cursor has moved.
BytesCall(d, length, r) ==
    Asserted(r.d,
             /\ ~(length < 0 \/ d.cursor_ + length > Len(Val(d.bytes_)))
             /\ r.d.cursor_ <= r.d.end_,
             Bytes(r.v))

\* decoder.readBytes(length)
ReadBytes(length) ==
    /\ Seated
    /\ Calling("readBytes", <<length>>)
    /\ Returned(BytesCall(decoder, length, readBytes(decoder, length)))

\* The lengths asked of a decoder: a negative one, one byte, and one byte
\* more than its block has left.
Lengths(d) == {0 - 1, 1, d.end_ - d.cursor_ + 1}

NextDecoder ==
    \/ \E a \in {<<NoByte, NoByte>>, <<NoByte, 2>>, <<1, 2>>} :
            SetBlock(Reseat, a[1], a[2])
    \/ Clear
    \/ ReadSplitVarint64
    \/ ReadUnsignedVarint32
    \/ ReadSignedVarint32
    \/ UnskipVarint
    \/ Seated /\ ReadString(decoder.end_ - decoder.cursor_)
    \/ Seated /\ \E length \in Lengths(decoder) : ReadBytes(length)

SpecDecoder == InitDecoder /\ [][NextDecoder]_vars


(***************************************************************************)
(* Properties of the decoder.                                              *)
(***************************************************************************)
\* The bytes v lie in the decoder's buffer from its cursor on.
StartsWith(d, v) ==
    /\ Seated
    /\ d.cursor_ + Len(v) <= Len(Val(d.bytes_))
    /\ \A i \in 1..Len(v) : At(d, d.cursor_ + i - 1) = v[i]

TenContinuationBytes(d) == \A i \in 0..9 : Ge128(At(d, d.cursor_ + i))

\* C12: a varint that does not terminate within ten bytes is a decode error.
\* When readSplitVarint64 has read ten bytes that all have the continuation
\* bit, it has returned no value, the decoder's error flag is set and
\* getError() is true.
C12_UnterminatedVarintSetsError ==
    (pc = "readSplitVarint64" /\ TenContinuationBytes(before)) =>
        /\ out \in {Undefined, AssertionError}
        /\ decoder.error_
        /\ getError(decoder)

\* The varint at the decoder's cursor is longer than five bytes.
OverLong(d) == \A i \in 0..4 : Ge128(At(d, d.cursor_ + i))

\* The bits above bit 31 of the varint at the cursor are the sign extension
\* of a negative 32-bit value: ten bytes, bits 32 to 63 all set.
SignExtended(d) ==
    /\ And(At(d, d.cursor_ + 4), 127) \div 8 = 15
    /\ \A i \in 5..8 : At(d, d.cursor_ + i) = 255
    /\ At(d, d.cursor_ + 9) = 1

\* Five more bytes with the continuation bit follow the first five, and
\* then the terminator.
FiveMoreThenTerminator(d) ==
    /\ \A i \in 5..9 : Ge128(At(d, d.cursor_ + i))
    /\ Lt128(At(d, d.cursor_ + 10))

\* C13: readUnsignedVarint32 accepts a varint longer than five bytes only when
\* the bits above bit 32 conform to sign extension (five additional bytes all
\* with continuation set, followed by the terminator); every other over-long
\* varint is rejected as malformed: the call returns no number.  Stated for
\* the build in which assertions throw, the one that rejects the most.
C13_OverLongVarintRejected ==
    (pc = "readUnsignedVarint32" /\ asserts /\ OverLong(before) /\ Tag(out) = "number") =>
        SignExtended(before) \/ FiveMoreThenTerminator(before)

\* C14: readString decodes UTF-8.  For every string s, readString over the
\* UTF-8 bytes of s returns s: a 1-, 2- or 3-byte sequence gives one code
\* unit, a 4-byte sequence gives the high and low surrogate of its code
\* point; a continuation byte without a lead byte contributes no code unit.
C14_ReadStringDecodesUtf8 ==
    pc = "readString" =>
        \A e \in Texts \cup StrayTexts :
            (args = <<Len(e.bytes)>> /\ StartsWith(before, e.bytes)) =>
                /\ out = Str(e.s)
                /\ decoder.cursor_ = before.cursor_ + Len(e.bytes)

\* U+1F600 followed by U+0800 has been read from its seven bytes.
C14_SurrogatePairRead ==
    /\ pc = "readString"
    /\ args = <<7>>
    /\ StartsWith(before, <<240, 159, 152, 128, 224, 160, 128>>)
    /\ out = Str(<<55357, 56832, 2048>>)

\* C16: setBlock seats the whole decoder state and clear resets it.  After
\* setBlock(data, start, length) on any decoder, one whose error flag an
\* earlier failed read has set included, start_ = start (0 if omitted),
\* end_ = start + length (the length of data if omitted), cursor_ = start
\* and the error flag is clear; after clear() the byte source is null,
\* start, end and cursor are 0 and the error flag is false.
C16_SetBlockSeatsState ==
    /\ pc = "setBlock" =>
          /\ decoder.bytes_ = Bytes(Reseat)
          /\ decoder.start_ = (IF args[1] = NoByte THEN 0 ELSE args[1])
          /\ decoder.end_ = (IF args[2] = NoByte THEN Len(Reseat)
                             ELSE decoder.start_ + args[2])
          /\ decoder.cursor_ = decoder.start_
          /\ ~decoder.error_
    /\ pc = "clear" =>
          decoder = [bytes_ |-> Null, start_ |-> 0, end_ |-> 0, cursor_ |-> 0,
                     error_ |-> FALSE]

\* The length reaches beyond the end of the decoder's block, or is negative.
InvalidLength(d, length) == length < 0 \/ d.cursor_ + length > d.end_

\* C17: readBytes(length) with an invalid length (negative, or reaching
\* beyond the end of the decoder's block) sets the error flag, returns no
\* data and leaves the cursor unchanged; with a valid length it returns
\* exactly the bytes [cursor, cursor + length) of the source buffer and
\* advances the cursor by length.
C17_ReadBytesChecksLength ==
    pc = "readBytes" =>
        IF InvalidLength(before, args[1])
        THEN /\ decoder.error_
             /\ out \in {Bytes(<<>>), AssertionError}
             /\ decoder.cursor_ = before.cursor_
        ELSE /\ out = Bytes(SubArray(Val(before.bytes_), before.cursor_,
                                     before.cursor_ + args[1]))
             /\ decoder.cursor_ = before.cursor_ + args[1]

\* The number v is an unsigned 32-bit value: not below zero.
IsUint32(v) == Len(v) = 3 \/ Val(v) >= 0

\* C21: unskipVarint(value) is the inverse of reading a varint.  For every
\* unsigned 32-bit value v, unskipVarint(v) moves the cursor backwards by
\* exactly the number of bytes of the varint encoding of v, so that after
\* readUnsignedVarint32 it puts the cursor back where the read began.
C21_UnskipInvertsRead ==
    (pc = "unskipVarint" /\ IsUint32(args[1])) =>
        before.cursor_ - decoder.cursor_ = VarintLen([lo |-> Val(args[1]), hi |-> 0])

\* The encoding e lies in the decoder's block from its cursor on.
InBlock(d, e) == StartsWith(d, e.bytes) /\ d.cursor_ + Len(e.bytes) <= d.end_

\* C23: the 32-bit varint reader works for signed and unsigned values.  On
\* the encoding of an unsigned 32-bit u, of at most five bytes,
\* readUnsignedVarint32 returns u; on the encoding of a signed 32-bit s, of
\* ten bytes with the sign extended when s is negative, readSignedVarint32
\* returns s; and the cursor advances by the length of the encoding.
C23_Varint32SignedAndUnsigned ==
    \A e \in Varints :
        /\ (pc = "readUnsignedVarint32" /\ e.u.hi = 0 /\ InBlock(before, e)) =>
               /\ out = Uint32(e.u.lo)
               /\ Len(e.bytes) <= 5
               /\ decoder.cursor_ = before.cursor_ + Len(e.bytes)
        /\ (/\ pc = "readSignedVarint32"
            /\ e.u.hi = (IF e.u.lo < 0 THEN 0 - 1 ELSE 0)
            /\ InBlock(before, e)) =>
               /\ out = Num(e.u.lo)
               /\ e.u.lo < 0 => Len(e.bytes) = 10
               /\ decoder.cursor_ = before.cursor_ + Len(e.bytes)

\* readSignedVarint32 has read the ten bytes of -2^31, and
\* readUnsignedVarint32 can read the five bytes of 2^32 - 1.
C23_NegativeAndLargeRead ==
    /\ pc = "readSignedVarint32"
    /\ StartsWith(before, <<128, 128, 128, 128, 248, 255, 255, 255, 255, 1>>)
    /\ out = Num(MinInt32)
    /\ decoder.cursor_ = before.cursor_ + 10
    /\ Number(readUnsignedVarint32(setBlock(BinaryDecoder, <<255, 255, 255, 255, 15>>,
                                            NoByte, NoByte)))
           = <<"number", 0 - 1, "unsigned">>



(***************************************************************************)
(* The decoder over blocks of any bytes: strings and fixed-width values    *)
(* are read from it until the cursor has reached the end of the block.     *)
(***************************************************************************)
MaxBytes == 4         \* bytes of a block of any bytes

\* A byte of each kind readString tells apart: ASCII, continuation byte, lead
\* byte of 2, 3 and 4 bytes, and a byte from 248 on.
ByteKinds == {65, 128, 194, 224, 240, 248}

RECURSIVE BytesOf(_)
BytesOf(n) ==
    IF n = 0 THEN {<<>>}
    ELSE BytesOf(n - 1) \cup {s \o <<b>> : s \in BytesOf(n - 1), b \in ByteKinds}

\* Eight bytes, by their halves, and the bytes after them.
Halves == {<<0, 0, 0, 0>>, <<1, 2, 3, 4>>, <<255, 255, 255, 255>>, <<0, 0, 0, 128>>}
Trails == {<<>>, <<255, 255, 255, 255>>, <<1, 2, 3, 4, 5>>}

RawBlocks ==
    BytesOf(MaxBytes) \cup {a \o b \o t : a \in Halves, b \in Halves, t \in Trails}

InitBytes ==
    /\ CodecIdle /\ CacheIdle /\ CompileIdle /\ StreamIdle /\ EmitIdle
    /\ asserts = FALSE
    /\ \E data \in RawBlocks : decoder = setBlock(BinaryDecoder, data, NoByte, NoByte)
    /\ before = BinaryDecoder
    /\ args = <<>>
    /\ calls = 0
    /\ out = Undefined
    /\ pc = "init"

\* decoder.readSplitFixed64((lowBits, highBits) => [lowBits, highBits])
ReadSplitFixed64 ==
    /\ Calling("readSplitFixed64", <<>>)
    /\ Returned(readSplitFixed64(decoder))

\* Bytes of the block are left to read.
Unread == decoder.cursor_ < decoder.end_

NextBytes ==
    \/ Unread /\ ReadSplitFixed64
    \/ Unread /\ \E length \in 1..(decoder.end_ - decoder.cursor_) : ReadString(length)

SpecBytes == InitBytes /\ [][NextBytes]_vars

\* The little-endian 32-bit value of the four bytes of d from index i on,
\* modulo 2^32, in signed reading.
LittleEndian32(d, i) ==
    At(d, i) + 256 * At(d, i + 1) + 65536 * At(d, i + 2)
    + 16777216 * (At(d, i + 3) % 128) + (IF At(d, i + 3) >= 128 THEN MinInt32 ELSE 0)

\* C22: readSplitFixed64 advances the cursor by exactly 8 and calls convert
\* with lowBits the little-endian 32-bit value of bytes [cursor, cursor + 4)
\* and highBits that of bytes [cursor + 4, cursor + 8), modulo 2^32, whatever
\* the eight bytes and the bytes after them are.
C22_Fixed64LittleEndian ==
    (pc = "readSplitFixed64" /\ before.cursor_ + 8 <= Len(Val(before.bytes_))) =>
        /\ decoder.cursor_ = before.cursor_ + 8
        /\ out = Arr(<<Num(LittleEndian32(before, before.cursor_)),
                       Num(LittleEndian32(before, before.cursor_ + 4))>>)

\* Eight bytes with bytes of 255 after them have been read from index 1 on.
C22_Fixed64ReadBeforeMoreBytes ==
    /\ pc = "readSplitFixed64"
    /\ before.cursor_ = 1
    /\ Val(before.bytes_) = <<1, 2, 3, 4, 0, 0, 0, 128, 255, 255, 255, 255>>
    /\ out = Arr(<<Num(2 + 768 + 262144), Num(0 - 8388608)>>)
    /\ decoder.cursor_ = 9

\* The decoder d with its buffer cut off at index end.
CutOff(d, end) ==
    [d EXCEPT !.bytes_ = Bytes(SubSeq(Val(d.bytes_), 1, end))]

\* C26: readString(length) consumes exactly length bytes.  Whatever the bytes
\* are, a multi-byte sequence that the end of the string cuts short and
\* bytes from 248 on included, the cursor after the call is the cursor before
\* plus length, and no byte at or beyond that index contributes to the
\* result.
C26_ReadStringConsumesLength ==
    pc = "readString" =>
        /\ decoder.cursor_ = before.cursor_ + args[1]
        /\ out = Str(readString(CutOff(before, before.cursor_ + args[1]), args[1]).v)


(***************************************************************************)
(* The instance cache: callers obtain decoders from BinaryDecoder.alloc or *)
(* from the constructor and give them back with free.                      *)
(***************************************************************************)
CacheLimit == 100     \* if (BinaryDecoder.instanceCache_.length < 100)
MaxLive == 101        \* decoders callers hold at one time

\* new BinaryDecoder(opt_bytes, opt_start, opt_length)
New(opt_bytes, opt_start, opt_length) ==
    IF Truthy(opt_bytes)
    THEN setBlock(BinaryDecoder, Val(opt_bytes), opt_start, opt_length)
    ELSE BinaryDecoder

Front(s) == SubSeq(s, 1, Len(s) - 1)
Last(s) == s[Len(s)]

\* BinaryDecoder.alloc over the cache: the cache it leaves, the decoder it
\* returns, and whether that decoder was constructed by the call.
alloc(cache, opt_bytes, opt_start, opt_length) ==
    IF Len(cache) # 0
    THEN [cache |-> Front(cache),
          decoder |-> IF Truthy(opt_bytes)
                      THEN setBlock(Last(cache), Val(opt_bytes), opt_start, opt_length)
                      ELSE Last(cache),
          constructed |-> FALSE]
    ELSE [cache |-> cache,
          decoder |-> New(opt_bytes, opt_start, opt_length),
          constructed |-> TRUE]

\* A free that pushes the decoder whatever the length of the cache.
freeUnbounded(cache, d) == Append(cache, clear(d))

\* d.free() over the cache: the cache it leaves.
free(cache, d) ==
    IF Len(cache) < CacheLimit THEN Append(cache, clear(d)) ELSE cache

InitCache ==
    /\ CodecIdle /\ DecoderIdle /\ CompileIdle /\ StreamIdle /\ EmitIdle
    /\ heap = <<>>
    /\ instanceCache_ = <<>>
    /\ cacheBefore = <<>>
    /\ live = 0
    /\ out = Undefined
    /\ pc = "init"

CacheCall(op) ==
    /\ pc' = op
    /\ cacheBefore' = instanceCache_
    /\ UNCHANGED <<asserts, before, args, calls, heap>>
    /\ UNCHANGED <<codecVars, compileVars, streamVars, emitVars>>

Allocated(a) ==
    /\ instanceCache_' = a.cache
    /\ decoder' = a.decoder
    /\ out' = Bool(a.constructed)

\* BinaryDecoder.alloc(opt_bytes)
Alloc(opt_bytes) ==
    /\ live < MaxLive
    /\ live' = live + 1
    /\ CacheCall("alloc")
    /\ Allocated(alloc(instanceCache_, opt_bytes, NoByte, NoByte))

\* d.free(), for a decoder d a caller holds
Free(d) ==
    /\ live > 0
    /\ live' = live - 1
    /\ CacheCall("free")
    /\ instanceCache_' = free(instanceCache_, d)
    /\ decoder' = clear(d)
    /\ out' = Undefined

NextCache ==
    \/ \E opt_bytes \in {Undefined, Bytes(Reseat)} : Alloc(opt_bytes)
    \/ \E d \in {BinaryDecoder, New(Bytes(Reseat), 1, 2)} : Free(d)

SpecCache == InitCache /\ [][NextCache]_vars

(***************************************************************************)
(* Properties of the instance cache.                                       *)
(***************************************************************************)
\* C15: after any sequence of alloc and free calls the instance cache holds
\* at most 100 decoders; free on a full cache discards the decoder and on any
\* other cache appends it, cleared; alloc takes the decoder at the end of the
\* cache whenever the cache is not empty, and constructs a decoder only when
\* the cache is empty.
C15_CacheBounded ==
    /\ Len(instanceCache_) <= 100
    /\ pc = "free" =>
          instanceCache_ = IF Len(cacheBefore) = 100 THEN cacheBefore
                           ELSE Append(cacheBefore, BinaryDecoder)
    /\ pc = "alloc" =>
          IF cacheBefore # <<>>
          THEN /\ out = Bool(FALSE)
               /\ instanceCache_ = Front(cacheBefore)
               /\ clear(decoder) = Last(cacheBefore)
          ELSE /\ out = Bool(TRUE)
               /\ instanceCache_ = <<>>

\* A decoder has been freed onto a cache of 100 decoders and discarded.
C15_FreeOnFullCache ==
    /\ pc = "free"
    /\ Len(cacheBefore) = 100
    /\ Len(instanceCache_) = 100


(***************************************************************************)
(* The plugin's compile: every proto file of the request is skipped or     *)
(* given to generate, whose output is added to the response.  A file is    *)
(* its name and the type nodes processTypes makes of it; a file name is    *)
(* kept as a string of the model.                                          *)
(***************************************************************************)
MaxFiles == 3         \* proto files in a request

\* KNOWN_TYPES of ./utils, in part.
KNOWN_TYPES == {"google/protobuf/any.proto", "google/protobuf/timestamp.proto"}

MessageNode(fields, children) ==
    [type |-> "message", fields |-> fields, children |-> children]
EnumNode == [type |-> "enum", fields |-> <<>>, children |-> <<>>]

File(name, types) == [name |-> name, types |-> types]

\* The proto files a request is made of: a message with a bytes field, one
\* without, a bytes field in a nested message only, an enum alone, a file
\* without a name, and a well-known type with a bytes field.
Files ==
    {File(Str("a.proto"), <<MessageNode(<<Int32Field("n", 1), BytesField("d", 4)>>, <<>>)>>),
     File(Str("b.proto"), <<EnumNode, MessageNode(<<Int32Field("n", 1)>>, <<>>)>>),
     File(Str("c.proto"),
          <<MessageNode(<<StringField("s", 2)>>,
                        <<MessageNode(<<Repeated(BytesField("d", 4), "writeRepeatedBytes", "")>>,
                                      <<>>)>>)>>),
     File(Str("d.proto"), <<EnumNode>>),
     File(Undefined, <<MessageNode(<<BytesField("d", 4)>>, <<>>)>>),
     File(Str("google/protobuf/any.proto"),
          <<MessageNode(<<StringField("typeUrl", 1), BytesField("value", 2)>>, <<>>)>>)}

RECURSIVE Requests(_)
Requests(n) ==
    IF n = 0 THEN {<<>>}
    ELSE Requests(n - 1) \cup {Append(r, f) : r \in Requests(n - 1), f \in Files}

\* The branch of _writeMessage's field loop that sets IMPORT_TRACKER.hasBytes
\* is taken for a field of the node.
SetsHasBytes(node) ==
    \E i \in DOMAIN node.fields :
        /\ node.fields[i].read # "readMessage"
        /\ node.fields[i].tsType # "bigint"
        /\ node.fields[i].read = "readBytes"

\* writeJSONSerializers(types, isTopLevel), for what it does to the tracker.
RECURSIVE writeJSONSerializers(_, _)
writeJSONSerializers(tracker, types) ==
    IF types = <<>> THEN tracker
    ELSE writeJSONSerializers(
             IF Head(types).type = "message"
             THEN writeJSONSerializers(
                      IF SetsHasBytes(Head(types))
                      THEN [tracker EXCEPT !.hasBytes = TRUE] ELSE tracker,
                      Head(types).children)
             ELSE tracker,
             Tail(types))

\* A generate that goes on with the tracker the file before left.
KeepTracker(tracker) == tracker

\* IMPORT_TRACKER = { ...DEFAULT_IMPORT_TRACKER }
ResetTracker(tracker) == DEFAULT_IMPORT_TRACKER

\* !name, for a name that is a string or undefined
NoName(name) == Tag(name) = "undefined" \/ Val(name) = ""

\* The text generate returns, for what it imports: the source it names,
\* whether it has the import of BinaryReader and BinaryWriter, and whether
\* that import has encodeBase64Bytes and decodeBase64Bytes in it.
Generated(file, opts, tracker) ==
    [tracker |-> tracker,
     content |->
        Obj([source |-> file.name,
             serializers |-> Bool(/\ ~opts.emitDeclarationOnly
                                  /\ \E i \in DOMAIN file.types :
                                         file.types[i].type = "message"),
             base64 |-> Bool(/\ ~opts.emitDeclarationOnly
                             /\ \E i \in DOMAIN file.types :
                                    file.types[i].type = "message"
                             /\ tracker.hasBytes)])]

\* generate(fileDescriptorProto, identifierTable, options, plugins) with no
\* plugins: the tracker it leaves and the text it returns.
generate(tracker, file, opts) ==
    IF NoName(file.name)
    THEN [tracker |-> ResetTracker(tracker), content |-> Str("")]
    ELSE Generated(file, opts,
                   IF ~opts.emitDeclarationOnly
                   THEN writeJSONSerializers(ResetTracker(tracker), file.types)
                   ELSE ResetTracker(tracker))

\* getProtobufTSFileName(name) and getProtobufJSFileName(name) of ./utils.
FileName(name, isTS) == <<Val(name), IF isTS THEN ".pb.ts" ELSE ".pb.js">>

\* A writeFile that puts the file at the head of the response.
writeFileFirst(files, name, g) ==
    [tracker |-> g.tracker,
     response |-> <<[name |-> name, content |-> g.content]>> \o files]

\* writeFile(name, content): format keeps the imports of the text.
writeFile(files, name, g) ==
    [tracker |-> g.tracker,
     response |-> Append(files, [name |-> name, content |-> g.content])]

\* One call of the function compile gives to forEach.
compileFile(tracker, files, file, e, opts) ==
    IF NoName(file.name) THEN [tracker |-> tracker, response |-> files]
    ELSE IF ~Truthy(e) /\ Val(file.name) \in KNOWN_TYPES
    THEN [tracker |-> tracker, response |-> files]
    ELSE writeFile(files, FileName(file.name, opts.isTS), generate(tracker, file, opts))

sTrue == <<116, 114, 117, 101>>     \* "true"

InitCompile ==
    /\ CodecIdle /\ DecoderIdle /\ CacheIdle /\ StreamIdle /\ EmitIdle
    /\ request \in Requests(MaxFiles)
    /\ response = <<>>
    /\ IMPORT_TRACKER = DEFAULT_IMPORT_TRACKER
    /\ env \in {Undefined, Str(<<>>), Str(sTrue)}
    /\ options \in [isTS : BOOLEAN, emitDeclarationOnly : BOOLEAN]
    /\ position = 0
    /\ out = Undefined
    /\ pc = "init"

Compiled(step) ==
    /\ IMPORT_TRACKER' = step.tracker
    /\ response' = step.response

\* forEach comes to the next proto file of the request.
CompileFile ==
    /\ pc \in {"init", "compiling"}
    /\ position < Len(request)
    /\ position' = position + 1
    /\ pc' = "compiling"
    /\ Compiled(compileFile(IMPORT_TRACKER, response, request[position + 1], env, options))
    /\ UNCHANGED <<request, env, options, out>>
    /\ UNCHANGED <<codecVars, decoderVars, cacheVars, streamVars, emitVars>>

\* return response
CompileReturn ==
    /\ pc \in {"init", "compiling"}
    /\ position = Len(request)
    /\ pc' = "compiled"
    /\ out' = Arr(response)
    /\ UNCHANGED <<compileVars, codecVars, decoderVars, cacheVars, streamVars, emitVars>>

NextCompile == CompileFile \/ CompileReturn

SpecCompile == InitCompile /\ [][NextCompile]_vars

(***************************************************************************)
(* Properties of compile.                                                  *)
(***************************************************************************)
\* GENERATE_KNOWN_TYPES is set: it is in the environment with a value (one
\* given the empty value reads as not set).
IsSet(e) == Tag(e) = "string" /\ Val(e) # <<>>

\* A file the response is to have a file for.
ToEmit(file) ==
    /\ Tag(file.name) = "string"
    /\ Val(file.name) # ""
    /\ (Val(file.name) \in KNOWN_TYPES => IsSet(env))

\* The files to emit among the first n files of the request, in order.
RECURSIVE EmitOf(_)
EmitOf(n) ==
    IF n = 0 THEN <<>>
    ELSE IF ToEmit(request[n]) THEN Append(EmitOf(n - 1), request[n])
    ELSE EmitOf(n - 1)

RECURSIVE HasBytesField(_)
HasBytesField(types) ==
    \E i \in DOMAIN types :
        /\ types[i].type = "message"
        /\ \/ \E k \in DOMAIN types[i].fields : types[i].fields[k].tsType = "Uint8Array"
           \/ HasBytesField(types[i].children)

\* C19: for any sequence of generate calls in one process, the output for a
\* file imports the base64 helpers (encodeBase64Bytes, decodeBase64Bytes) if
\* and only if codecs are emitted and some message of that same file has a
\* bytes field; a bytes field in an earlier file never adds the import to a
\* later file.
C19_Base64ImportPerFile ==
    \A j \in 1..Len(response) :
        Get(response[j].content, "base64") =
            Bool(/\ ~options.emitDeclarationOnly
                 /\ HasBytesField(EmitOf(position)[j].types))

\* generate has been called for a file with a bytes field and then for one
\* without: the first output has the import, the second has not.
C19_BytesThenNoBytes ==
    /\ pc = "compiled"
    /\ Len(response) = 2
    /\ response[1].name[1] = "c.proto"
    /\ Get(response[1].content, "base64") = Bool(TRUE)
    /\ response[2].name[1] = "b.proto"
    /\ Get(response[2].content, "base64") = Bool(FALSE)
    /\ Get(response[2].content, "serializers") = Bool(TRUE)


(***************************************************************************)
(* The plugin process: compiler awaits readStream(process.stdin), gives    *)
(* the bytes to compile and writes the response.  The input arrives in     *)
(* chunks; the stream emits 'readable' when there is something to read or  *)
(* the input is over, and 'end' once the input is over and all of it has   *)
(* been read.                                                              *)
(***************************************************************************)
MaxChunks == 3        \* chunks the input arrives in

RECURSIVE Inputs(_)
Inputs(n) ==
    IF n = 0 THEN {<<>>}
    ELSE Inputs(n - 1) \cup {Append(i, c) : i \in Inputs(n - 1), c \in {<<1>>, <<2, 3>>, <<4>>}}

InitStream ==
    /\ CodecIdle /\ DecoderIdle /\ CacheIdle /\ CompileIdle /\ EmitIdle
    /\ \E i \in Inputs(MaxChunks) :
         stdin = [pending |-> i, arrived |-> <<>>, buffered |-> <<>>,
                  readable |-> FALSE, eof |-> FALSE, ended |-> FALSE]
    /\ chunks = <<>>
    /\ stdout = <<>>
    /\ out = Undefined
    /\ pc = "reading"

StreamStep == UNCHANGED <<codecVars, decoderVars, cacheVars, compileVars, emitVars>>

\* A chunk of the input arrives in the stream's buffer.
Arrive ==
    /\ stdin.pending # <<>>
    /\ stdin' = [stdin EXCEPT !.pending = Tail(@),
                              !.arrived = Append(@, Head(stdin.pending)),
                              !.buffered = Append(@, Head(stdin.pending)),
                              !.readable = TRUE]
    /\ UNCHANGED <<chunks, stdout, out, pc>>
    /\ StreamStep

\* The input is over.
Eof ==
    /\ stdin.pending = <<>>
    /\ ~stdin.eof
    /\ stdin' = [stdin EXCEPT !.eof = TRUE, !.readable = TRUE]
    /\ UNCHANGED <<chunks, stdout, out, pc>>
    /\ StreamStep

\* A handler loop that puts each chunk before the ones collected.
RECURSIVE ReadableLoopUnshift(_, _)
ReadableLoopUnshift(collected, buffered) ==
    IF buffered = <<>> THEN collected
    ELSE ReadableLoopUnshift(<<Head(buffered)>> \o collected, Tail(buffered))

\* while ((chunk = process.stdin.read()) !== null) chunks.push(chunk);
\* read() gives the chunks of the buffer one after another, then null.
RECURSIVE ReadableLoop(_, _)
ReadableLoop(collected, buffered) ==
    IF buffered = <<>> THEN collected
    ELSE ReadableLoop(Append(collected, Head(buffered)), Tail(buffered))

\* stream.on("readable", ...)
Readable ==
    /\ stdin.readable
    /\ chunks' = ReadableLoop(chunks, stdin.buffered)
    /\ stdin' = [stdin EXCEPT !.buffered = <<>>, !.readable = FALSE]
    /\ UNCHANGED <<stdout, out, pc>>
    /\ StreamStep

\* stream.on("end", ...): resolve(Buffer.concat(chunks))
End ==
    /\ stdin.eof
    /\ stdin.buffered = <<>>
    /\ ~stdin.ended
    /\ stdin' = [stdin EXCEPT !.ended = TRUE]
    /\ out' = Bytes(Flatten(chunks))
    /\ pc' = "resolved"
    /\ UNCHANGED <<chunks, stdout>>
    /\ StreamStep

\* The response protocompile makes of its input, serialized.
protocompile(input) == <<"response", input>>

\* compiler after the await: response = protocompile(input);
\* process.stdout.write(response.serializeBinary())
Compiler ==
    /\ pc = "resolved"
    /\ stdout' = Append(stdout, protocompile(out))
    /\ pc' = "written"
    /\ UNCHANGED <<stdin, chunks, out>>
    /\ StreamStep

NextStream == Arrive \/ Eof \/ Readable \/ End \/ Compiler

SpecStream == InitStream /\ [][NextStream]_vars

\* The event loop runs the continuation of a promise that has been resolved.
FairSpecStream == SpecStream /\ WF_vars(Compiler)

(***************************************************************************)
(* Properties of the plugin process.                                       *)
(***************************************************************************)
\* What has been written, if anything, is the one response for the chunks
\* of the input in their order of arrival, written after 'end'.
WrittenOnceAfterEnd ==
    /\ Len(stdout) <= 1
    /\ stdout # <<>> =>
          /\ stdin.ended
          /\ stdin.pending = <<>>
          /\ stdout = <<protocompile(Bytes(Flatten(stdin.arrived)))>>
    /\ pc = "written" => Len(stdout) = 1

\* C20: the plugin process writes the response to standard output exactly
\* once and only after the input stream has signalled end, and the bytes
\* handed to compile are the concatenation, in arrival order, of every chunk
\* read from the input, for every interleaving of readable and end events:
\* never more than one write, none before 'end', the write is of the
\* response for all the input, and once 'end' is signalled the write follows.
C20_ResponseWrittenOnce ==
    /\ []WrittenOnceAfterEnd
    /\ stdin.ended ~> (pc = "written" /\ Len(stdout) = 1)

\* The response has been written for an input that arrived in three chunks.
C20_WrittenAfterThreeChunks ==
    /\ pc = "written"
    /\ stdin.arrived = <<<<1>>, <<2, 3>>, <<4>>>>
    /\ chunks = stdin.arrived
    /\ stdout = <<protocompile(Bytes(<<1, 2, 3, 4>>))>>


(***************************************************************************)
(* printComments: the emitter turns the leading comment of a descriptor    *)
(* into a block comment.  A text is the sequence of its characters.        *)
(***************************************************************************)
MaxComment == 4       \* characters of a comment

NL == "\n"

\* comment.replace(/\*\//g, "*" + "\\" + "/")
RECURSIVE escapeComment(_)
escapeComment(text) ==
    IF text = <<>> THEN <<>>
    ELSE IF Len(text) >= 2 /\ text[1] = "*" /\ text[2] = "/"
    THEN <<"*", "\\", "/">> \o escapeComment(Tail(Tail(text)))
    ELSE <<Head(text)>> \o escapeComment(Tail(text))

\* text.split("\n"): the pieces between the newlines, at least one.
RECURSIVE Split(_, _)
Split(text, piece) ==
    IF text = <<>> THEN <<piece>>
    ELSE IF Head(text) = NL THEN <<piece>> \o Split(Tail(text), <<>>)
    ELSE Split(Tail(text), Append(piece, Head(text)))

\* pieces.join(separator)
RECURSIVE Join(_, _)
Join(pieces, separator) ==
    IF pieces = <<>> THEN <<>>
    ELSE IF Len(pieces) = 1 THEN pieces[1]
    ELSE pieces[1] \o separator \o Join(Tail(pieces), separator)

\* lines.slice(0, -1).join("\n *") + lines.slice(-1).join(" *")
JoinLines(lines) ==
    Join(SubSeq(lines, 1, Len(lines) - 1), <<NL, " ", "*">>)
    \o Join(SubSeq(lines, Len(lines), Len(lines)), <<" ", "*">>)

Spaces(n) == [i \in 1..n |-> " "]

\* The template of printComments around the lines it has joined.
CommentBlock(joined) ==
    Spaces(4) \o <<"/", "*", "*", NL>> \o Spaces(5) \o <<"*">> \o joined
    \o <<NL>> \o Spaces(5) \o <<"*", "/", NL>> \o Spaces(6)

printComments(text) == CommentBlock(JoinLines(Split(escapeComment(text), <<>>)))

\* The comments printComments is given: texts over a letter, the two
\* characters that end a block comment, and the newline.
RECURSIVE Comments(_)
Comments(n) ==
    IF n = 0 THEN {<<>>}
    ELSE Comments(n - 1) \cup {t \o <<c>> : t \in Comments(n - 1), c \in {"a", "*", "/", NL}}

InitComments ==
    /\ CodecIdle /\ DecoderIdle /\ CacheIdle /\ CompileIdle /\ StreamIdle
    /\ comment \in Comments(MaxComment)
    /\ stack = <<>>
    /\ out = Undefined
    /\ pc = "init"

\* result += printComments(comments.leading)
PrintComments ==
    /\ pc = "init"
    /\ pc' = "printComments"
    /\ out' = Str(printComments(comment))
    /\ UNCHANGED <<comment, stack>>
    /\ UNCHANGED <<codecVars, decoderVars, cacheVars, compileVars, streamVars>>

NextComments == PrintComments

SpecComments == InitComments /\ [][NextComments]_vars

\* The lines of a text: its pieces between newlines, where a newline at the
\* end of the text ends the last line and begins no further one.
LinesOf(text) ==
    LET pieces == Split(text, <<>>)
    IN  IF Len(pieces) > 1 /\ pieces[Len(pieces)] = <<>>
        THEN SubSeq(pieces, 1, Len(pieces) - 1)
        ELSE pieces

\* The text has "*/" in it.
EndsBlock(text) == \E i \in 1..(Len(text) - 1) : text[i] = "*" /\ text[i + 1] = "/"

\* The line of the block that carries line i of the comment: the asterisk
\* after the indentation, then the line.
BlockLine(i, line) == (IF i = 1 THEN Spaces(5) ELSE <<" ">>) \o <<"*">> \o line

\* C24: printComments preserves the comment's line structure and cannot end
\* the block early.  For every comment text, the emitted text is the line
\* of the opening, then each line of the comment on a line of its own, in
\* order, then the line of the terminator; and it has no "*/" before the
\* terminator.
C24_CommentLinesKept ==
    pc = "printComments" =>
        LET emitted == Split(Val(out), <<>>)
            lines == LinesOf(comment)
            block == SubSeq(emitted, 2, Len(emitted) - 2)
        IN  /\ emitted[1] = Spaces(4) \o <<"/", "*", "*">>
            /\ Len(block) = Len(lines)
            /\ \A i \in 1..Len(lines) :
                   /\ ~EndsBlock(block[i])
                   /\ \/ block[i] = BlockLine(i, lines[i])
                      \/ block[i] = BlockLine(i, escapeComment(lines[i]))
            /\ emitted[Len(emitted) - 1] = Spaces(5) \o <<"*", "/">>


(***************************************************************************)
(* The generated initialize() functions, call by call.  T.initialize()     *)
(* evaluates its object literal field by field; for a message field that   *)
(* is neither optional nor repeated nor a map it calls initialize() of the *)
(* field's type.  The engine's call stack holds MaxStack calls; one more   *)
(* throws a RangeError.                                                    *)
(*                                                                         *)
(*   message Tree { int32 value = 1; Tree left = 2; Tree right = 3; }      *)
(*   message Ping { Pong pong = 1; }                                       *)
(*   message Pong { string s = 1; Ping ping = 2; }                         *)
(*   message List { int32 head = 1; optional List tail = 2; }              *)
(*   message Forest { repeated Forest trees = 1; }                         *)
(***************************************************************************)
MaxStack == 16        \* calls the engine's stack holds

MessageField(name, index, tsType) ==
    Field(name, index, "readMessage", "writeMessage", tsType, Undefined)

CyclicTypes ==
    [Tree |-> Message(<<Int32Field("value", 1), MessageField("left", 2, "Tree"),
                        MessageField("right", 3, "Tree")>>),
     Ping |-> Message(<<MessageField("pong", 1, "Pong")>>),
     Pong |-> Message(<<StringField("s", 1), MessageField("ping", 2, "Ping")>>),
     List |-> Message(<<Int32Field("head", 1), Optional(MessageField("tail", 2, "List"))>>),
     Forest |-> Message(<<Repeated(MessageField("trees", 1, "Forest"),
                                   "writeRepeatedMessage", "")>>)]

Fields(T) == IF T \in DOMAIN CyclicTypes THEN CyclicTypes[T].fields ELSE FieldsOf(T)

\* The field is initialized by a call of its type's initialize().
Nested(field) ==
    ~field.optional /\ ~field.repeated /\ field.read = "readMessage" /\ ~field.map

\* A call of T.initialize(): the object literal with its first fields done.
Frame(T) == [type |-> T, done |-> 0, literal |-> EmptyObj]

Top == stack[Len(stack)]
TopField == Fields(Top.type)[Top.done + 1]

\* The frame with the value of its next field in place.
FieldDone(frame, value) ==
    [frame EXCEPT !.done = frame.done + 1,
                  !.literal = Put(frame.literal, Fields(frame.type)[frame.done + 1].name,
                                  value)]

InitInitialize ==
    /\ DecoderIdle /\ CacheIdle /\ CompileIdle /\ StreamIdle
    /\ ty \in MessageTypes \cup DOMAIN CyclicTypes
    /\ cfg = DefaultConfig
    /\ msg = Undefined
    /\ wire = <<>>
    /\ doc = Undefined
    /\ comment = <<>>
    /\ stack = <<>>
    /\ out = Undefined
    /\ pc = "init"

InitializeStep ==
    UNCHANGED <<codecVars, comment, decoderVars, cacheVars, compileVars, streamVars>>

\* T.initialize() is called.
InitializeCall ==
    /\ pc = "init"
    /\ pc' = "initialize"
    /\ stack' = <<Frame(ty)>>
    /\ UNCHANGED out
    /\ InitializeStep

\* name: undefined, name: [], name: defaultValue
InitializeField ==
    /\ pc = "initialize"
    /\ Top.done < Len(Fields(Top.type))
    /\ ~Nested(TopField)
    /\ stack' = [stack EXCEPT ![Len(stack)] =
                    FieldDone(Top, IF TopField.optional THEN Undefined
                                   ELSE IF TopField.repeated THEN Arr(<<>>)
                                   ELSE TopField.defaultValue)]
    /\ UNCHANGED <<out, pc>>
    /\ InitializeStep

\* name: Type.initialize(), the call
InitializeNested ==
    /\ pc = "initialize"
    /\ Top.done < Len(Fields(Top.type))
    /\ Nested(TopField)
    /\ Len(stack) < MaxStack
    /\ stack' = Append(stack, Frame(TopField.tsType))
    /\ UNCHANGED <<out, pc>>
    /\ InitializeStep

\* name: Type.initialize(), with no room on the stack for the call
StackOverflow ==
    /\ pc = "initialize"
    /\ Top.done < Len(Fields(Top.type))
    /\ Nested(TopField)
    /\ Len(stack) = MaxStack
    /\ stack' = <<>>
    /\ out' = Throw("RangeError")
    /\ pc' = "returned"
    /\ InitializeStep

\* return { ... }, to the caller's object literal or to the first caller
InitializeReturn ==
    /\ pc = "initialize"
    /\ Top.done = Len(Fields(Top.type))
    /\ IF Len(stack) = 1
       THEN /\ stack' = <<>>
            /\ out' = Top.literal
            /\ pc' = "returned"
       ELSE /\ stack' = [SubSeq(stack, 1, Len(stack) - 1) EXCEPT ![Len(stack) - 1] =
                            FieldDone(stack[Len(stack) - 1], Top.literal)]
            /\ UNCHANGED <<out, pc>>
    /\ InitializeStep

NextInitialize ==
    \/ InitializeCall
    \/ InitializeField
    \/ InitializeNested
    \/ StackOverflow
    \/ InitializeReturn

SpecInitialize == InitInitialize /\ [][NextInitialize]_vars

\* The value is the default of the field: unset, empty, a message, or the
\* default value of the scalar type.
AtDefault(field, value) ==
    IF field.optional THEN value = Undefined
    ELSE IF field.repeated THEN value = Arr(<<>>)
    ELSE IF Nested(field) THEN Tag(value) = "object"
    ELSE value = field.defaultValue

\* C25: the generated initialize() terminates for every message type of a
\* file, message types that refer to themselves or to each other in a cycle
\* of message fields that are neither optional nor repeated included, and
\* returns a message with every field at its default.
C25_InitializeReturnsDefaults ==
    pc = "returned" =>
        /\ Tag(out) = "object"
        /\ \A i \in DOMAIN Fields(ty) :
               AtDefault(Fields(ty)[i], Get(out, Fields(ty)[i].name))


(***************************************************************************)
(* The instance cache with the identity of the decoders.  The cache is an  *)
(* array of references: a decoder instance is its index in the heap, and   *)
(* a caller that has been handed an instance can call free on it at any    *)
(* time, a second time included.                                           *)
(***************************************************************************)
MaxInstances == 2     \* decoder instances constructed
MaxAllocFree == 6     \* calls of alloc and free

InitInstances ==
    /\ CodecIdle /\ DecoderIdle /\ CompileIdle /\ StreamIdle /\ EmitIdle
    /\ heap = <<>>
    /\ instanceCache_ = <<>>
    /\ cacheBefore = <<>>
    /\ live = 0
    /\ out = Undefined
    /\ pc = "init"

InstanceCall(op) ==
    /\ live < MaxAllocFree
    /\ live' = live + 1
    /\ pc' = op
    /\ cacheBefore' = instanceCache_
    /\ UNCHANGED <<decoderVars, codecVars, compileVars, streamVars, emitVars>>

\* The instance handed to one more caller, seated on opt_bytes if given.
Handed(instance, opt_bytes) ==
    [d |-> IF Truthy(opt_bytes)
           THEN setBlock(instance.d, Val(opt_bytes), NoByte, NoByte)
           ELSE instance.d,
     callers |-> instance.callers + 1]

\* BinaryDecoder.alloc(opt_bytes) with a decoder in the cache: pop
AllocCached(opt_bytes) ==
    /\ Len(instanceCache_) # 0
    /\ InstanceCall("alloc")
    /\ instanceCache_' = Front(instanceCache_)
    /\ heap' = [heap EXCEPT ![Last(instanceCache_)] = Handed(@, opt_bytes)]
    /\ out' = Num(Last(instanceCache_))

\* BinaryDecoder.alloc(opt_bytes) with the cache empty: new BinaryDecoder
AllocNew(opt_bytes) ==
    /\ Len(instanceCache_) = 0
    /\ Len(heap) < MaxInstances
    /\ InstanceCall("alloc")
    /\ heap' = Append(heap, [d |-> New(opt_bytes, NoByte, NoByte), callers |-> 1])
    /\ out' = Num(Len(heap) + 1)
    /\ UNCHANGED instanceCache_

\* instance.free(): this.clear(), and push(this) if the cache has room
FreeInstance(instance) ==
    /\ InstanceCall("free")
    /\ heap' = [heap EXCEPT ![instance] = [d |-> clear(@.d), callers |-> 0]]
    /\ instanceCache_' =
           IF Len(instanceCache_) < CacheLimit
           THEN Append(instanceCache_, instance)
           ELSE instanceCache_
    /\ out' = Undefined

NextInstances ==
    \/ \E opt_bytes \in {Undefined, Bytes(Reseat)} : AllocCached(opt_bytes)
    \/ \E opt_bytes \in {Undefined, Bytes(Reseat)} : AllocNew(opt_bytes)
    \/ \E instance \in DOMAIN heap : FreeInstance(instance)

SpecInstances == InitInstances /\ [][NextInstances]_vars

\* C27: the decoder free list never aliases.  After any sequence of alloc
\* and free calls, free called more than once on the same decoder included,
\* no decoder instance is in the cache twice, no instance has been handed
\* out by two alloc calls without a free of it in between, and every decoder
\* in the cache is in the cleared state.
C27_FreeListNeverAliases ==
    /\ \A i, j \in DOMAIN instanceCache_ : i # j => instanceCache_[i] # instanceCache_[j]
    /\ \A instance \in DOMAIN heap : heap[instance].callers <= 1
    /\ \A i \in DOMAIN instanceCache_ : heap[instanceCache_[i]].d = BinaryDecoder

=============================================================================
